---- MODULE Spec2Model ----
(***************************************************************************)
(* Wallet ledger, freeze/settle protocol, gateway reconciliation and       *)
(* refund orchestration of the supermarket application.                    *)
(*                                                                         *)
(* Money is counted in whole units.  A database transaction that holds a   *)
(* row lock (SELECT ... FOR UPDATE, or the row lock of an UPDATE) from its *)
(* first statement to its commit is one atomic step; every await between   *)
(* two database transactions or provider calls of a handler is a           *)
(* suspension point, so a handler is a sequence of steps of one request    *)
(* slot and the steps of different slots interleave.                       *)
(***************************************************************************)
EXTENDS Integers, Sequences, FiniteSets, TLC

\* ---------------------------------------------------------------- bounds
MaxAmount == 1      \* largest order total / recharge amount drawn
MaxTxns   == 4      \* rows of the transactions table
MaxRecharges == 1   \* gateway recharges started
MaxOrders == 2      \* rows of the orders table
MaxRefunds == 1     \* rows of the refund_requests table
MaxPolls  == 2      \* polls of one SSE stream (maxPolls of the code, scaled down)
MaxLate   == 1      \* ticks of an SSE interval drawn after the maxPolls-th
LedgerLen == 12     \* rows of a transaction log given as input
MaxLedgerRefunds == 2   \* refund rows appended to such a log

\* ---------------------------------------------------------------- users
Customers == {1, 2}
AdminId   == 3      \* the row "SELECT id FROM users WHERE role = 'admin' LIMIT 1" returns
AllUsers  == Customers \cup {AdminId}
Reqs      == {1, 2} \* in-flight requests of the event loop
Amounts   == 1..MaxAmount
TxnIds    == 1..MaxTxns
OrderIds  == 1..MaxOrders
RefundIds == 1..MaxRefunds

VARIABLES
    wallets,    \* user_wallets: user id -> row (exists = FALSE: no row)
    txns,       \* transactions: sequence of rows, id = index
    orders,     \* orders: sequence of rows, id = index
    shipments,  \* shipments: order id -> status ("none": no row)
    refunds,    \* refund_requests: sequence of rows, id = index
    gateway,    \* provider-side state of the charge behind each transaction id
    sessions,   \* qrSessionStore: transaction ids with a live QR session
    req,        \* the in-flight requests: slot -> position and locals
    clock,      \* Date.now(), in seconds
    tokenCache, \* cachedAccessToken and cachedAccessTokenExpiresAtMs
    sessionTimes \* qrSessionStore: createdAt of each entry (usedAt: its last lookup)

\* the time-keeping state, left alone by every handler that reads no clock
timed == <<clock, tokenCache, sessionTimes>>

vars == <<wallets, txns, orders, shipments, refunds, gateway, sessions, req, timed>>

\* ---------------------------------------------------------------- rows
NoWallet == [exists |-> FALSE, balance |-> 0, frozen_balance |-> 0,
             total_income |-> 0, total_expense |-> 0]

NewWallet(initialBalance) == [NoWallet EXCEPT !.exists = TRUE, !.balance = initialBalance]

\* description: the free text is kept as the template that wrote it (tag), the
\* key:value tokens it carries (keys) and the id after "refund_of_txn_id:" (marker)
Desc(tag, keys, marker) == [tag |-> tag, keys |-> keys, marker |-> marker]

\* one row of transactions; order_id 0 is NULL, payment_method "null" is NULL
TxnRow(user_id, order_id, type, payment_method, amount, balance_before, balance_after, status, description) ==
    [user_id |-> user_id, order_id |-> order_id, type |-> type,
     payment_method |-> payment_method, amount |-> amount,
     balance_before |-> balance_before, balance_after |-> balance_after,
     status |-> status, description |-> description]

\* result of a ledger unit of work
Committed(w, t) == [ok |-> TRUE, err |-> "", wallets |-> w, txns |-> t]
RolledBack(w, t, err) == [ok |-> FALSE, err |-> err, wallets |-> w, txns |-> t]

Max(a, b) == IF a >= b THEN a ELSE b

\* INSERT ... ON DUPLICATE KEY UPDATE user_id = user_id
EnsureWallet(w, userId) ==
    IF w[userId].exists THEN w ELSE [w EXCEPT ![userId] = NewWallet(0)]

\* ---------------------------------------------------------------- Wallet model
\* freezeBalance without the comparison of the balance with the amount
FreezeBalanceNoCheck(w, t, userId, orderId, amount, dbFail) ==
    IF dbFail THEN RolledBack(w, t, "db error")
    ELSE IF ~w[userId].exists THEN RolledBack(w, t, "Wallet not found")
    ELSE Committed(
            [w EXCEPT ![userId].balance = @ - amount,
                      ![userId].frozen_balance = @ + amount,
                      ![userId].total_expense = @ + amount],
            Append(t, TxnRow(userId, orderId, "purchase", "null", -amount,
                             w[userId].balance, w[userId].balance - amount, "completed",
                             Desc("Payment for order", {}, 0))))

\* freezeBalance that takes the amount from the balance without freezing it
FreezeBalanceNoFrozen(w, t, userId, orderId, amount, dbFail) ==
    IF dbFail THEN RolledBack(w, t, "db error")
    ELSE IF ~w[userId].exists THEN RolledBack(w, t, "Wallet not found")
    ELSE IF w[userId].balance < amount THEN RolledBack(w, t, "Insufficient balance")
    ELSE Committed(
            [w EXCEPT ![userId].balance = @ - amount,
                      ![userId].total_expense = @ + amount],
            Append(t, TxnRow(userId, orderId, "purchase", "null", -amount,
                             w[userId].balance, w[userId].balance - amount, "completed",
                             Desc("Payment for order", {}, 0))))

\* Wallet.freezeBalance: balance -> frozen_balance, one purchase row
FreezeBalance(w, t, userId, orderId, amount, dbFail) ==
    IF dbFail THEN RolledBack(w, t, "db error")
    ELSE IF ~w[userId].exists THEN RolledBack(w, t, "Wallet not found")
    ELSE IF w[userId].balance < amount THEN RolledBack(w, t, "Insufficient balance")
    ELSE Committed(
            [w EXCEPT ![userId].balance = @ - amount,
                      ![userId].frozen_balance = @ + amount,
                      ![userId].total_expense = @ + amount],
            Append(t, TxnRow(userId, orderId, "purchase", "null", -amount,
                             w[userId].balance, w[userId].balance - amount, "completed",
                             Desc("Payment for order", {}, 0))))

\* Wallet.confirmDelivery: payer frozen_balance -= amount (no check, no payer row),
\* admin balance += amount where an admin wallet row exists, one income row
ConfirmDelivery(w, t, orderId, userId, adminId, amount, dbFail) ==
    IF dbFail THEN RolledBack(w, t, "db error")
    ELSE LET w1 == IF w[userId].exists
                   THEN [w EXCEPT ![userId].frozen_balance = @ - amount]
                   ELSE w
             adminBalanceBefore == IF w1[adminId].exists THEN w1[adminId].balance ELSE 0
             adminBalanceAfter  == adminBalanceBefore + amount
             w2 == IF w1[adminId].exists
                   THEN [w1 EXCEPT ![adminId].balance = @ + amount,
                                   ![adminId].total_income = @ + amount]
                   ELSE w1
         IN Committed(w2,
                Append(t, TxnRow(adminId, orderId, "income", "null", amount,
                                 adminBalanceBefore, adminBalanceAfter, "completed",
                                 Desc("Income from order", {}, 0))))

\* Wallet.refund: frozen_balance = GREATEST(0, frozen_balance - amount),
\* balance += amount, one refund row
Refund(w, t, orderId, userId, amount, dbFail) ==
    IF dbFail THEN RolledBack(w, t, "db error")
    ELSE LET balanceBefore == IF w[userId].exists THEN w[userId].balance ELSE 0
             balanceAfter  == balanceBefore + amount
             w1 == IF w[userId].exists
                   THEN [w EXCEPT ![userId].frozen_balance = Max(0, @ - amount),
                                  ![userId].balance = @ + amount]
                   ELSE w
         IN Committed(w1,
                Append(t, TxnRow(userId, orderId, "refund", "null", amount,
                                 balanceBefore, balanceAfter, "completed",
                                 Desc("Refund for order", {}, 0))))

\* Wallet.recharge whose failing INSERT is not followed by a rollback of the UPDATE
RechargeNoRollback(w, t, userId, amount, dbFail) ==
    LET w0 == EnsureWallet(w, userId)
        balanceBefore == w0[userId].balance
        balanceAfter  == balanceBefore + amount
    IN IF dbFail THEN RolledBack([w0 EXCEPT ![userId].balance = @ + amount], t, "db error")
       ELSE Committed([w0 EXCEPT ![userId].balance = @ + amount],
                Append(t, TxnRow(userId, 0, "recharge", "null", amount,
                                 balanceBefore, balanceAfter, "completed",
                                 Desc("Manual recharge", {}, 0))))

\* Wallet.recharge: ensure the wallet row, balance += amount, one recharge row
Recharge(w, t, userId, amount, dbFail) ==
    IF dbFail THEN RolledBack(w, t, "db error")
    ELSE LET w0 == EnsureWallet(w, userId)
             balanceBefore == w0[userId].balance
             balanceAfter  == balanceBefore + amount
         IN Committed([w0 EXCEPT ![userId].balance = @ + amount],
                Append(t, TxnRow(userId, 0, "recharge", "null", amount,
                                 balanceBefore, balanceAfter, "completed",
                                 Desc("Manual recharge", {}, 0))))

\* ---------------------------------------------------------------- requests
ReqIdle == [kind |-> "none", pc |-> "idle", user |-> 0, id |-> 0, amt |-> 0,
            obs |-> "none", ref |-> 0]

InFlight(kind, pc, user, id, amt, obs, ref) ==
    [kind |-> kind, pc |-> pc, user |-> user, id |-> id, amt |-> amt, obs |-> obs, ref |-> ref]

\* a new request takes the lowest idle slot (slots are interchangeable)
Free(r) == req[r].pc = "idle" /\ \A q \in Reqs : q < r => req[q].pc # "idle"

\* the request of slot r has sent its response and ends
Finish(r) == req' = [req EXCEPT ![r] = ReqIdle]

\* the request of slot r goes on to its next step
Goto(r, next) == req' = [req EXCEPT ![r] = next]

OrderExists(o) == o \in 1..Len(orders)
TxnExists(t) == t \in 1..Len(txns)
RefundExists(f) == f \in 1..Len(refunds)

\* ---------------------------------------------------------------- manual recharge
\* walletControllers.recharge with paymentMethod 'manual': Wallet.recharge
ManualRecharge(u, amount) ==
    /\ Len(txns) < MaxTxns
    /\ \E dbFail \in BOOLEAN :
         LET res == Recharge(wallets, txns, u, amount, dbFail)
         IN /\ wallets' = res.wallets
            /\ txns' = res.txns
            /\ gateway' = IF res.ok THEN Append(gateway, "none") ELSE gateway
            /\ UNCHANGED req
    /\ UNCHANGED <<orders, shipments, refunds, sessions, timed>>

\* ---------------------------------------------------------------- checkout
\* checkout, first part: Wallet.getBalance and the balance check of the controller
CheckoutStart(r, u, total) ==
    /\ Free(r)
    /\ IF ~wallets[u].exists
       THEN Finish(r)
       ELSE IF wallets[u].balance < total
       THEN Finish(r)
       ELSE Goto(r, InFlight("checkout", "co_create", u, 0, total, "none", 0))
    /\ UNCHANGED <<wallets, txns, orders, shipments, refunds, gateway, sessions, timed>>

\* Order.create: INSERT INTO orders (user_id, total, created_at)
CheckoutCreateOrder(r) ==
    /\ req[r].pc = "co_create"
    /\ Len(orders) < MaxOrders
    /\ \E dbFail \in BOOLEAN :
         IF dbFail
         THEN /\ Finish(r)
              /\ UNCHANGED orders
         ELSE /\ orders' = Append(orders, [user_id |-> req[r].user, total |-> req[r].amt,
                                           is_confirmed |-> FALSE])
              /\ Goto(r, [req[r] EXCEPT !.pc = "co_freeze", !.id = Len(orders) + 1])
    /\ UNCHANGED <<wallets, txns, shipments, refunds, gateway, sessions, timed>>

\* checkout, last part: Wallet.freezeBalance; on failure the order row stays
\* ("TODO: Rollback order creation"); on success createShipmentForOrder
CheckoutFreeze(r) ==
    /\ req[r].pc = "co_freeze"
    /\ Len(txns) < MaxTxns
    /\ \E dbFail \in BOOLEAN, shipOk \in BOOLEAN :
         LET res == FreezeBalance(wallets, txns, req[r].user, req[r].id, req[r].amt, dbFail)
         IN /\ wallets' = res.wallets
            /\ txns' = res.txns
            /\ gateway' = IF res.ok THEN Append(gateway, "none") ELSE gateway
            /\ shipments' = IF res.ok /\ shipOk
                            THEN [shipments EXCEPT ![req[r].id] = "pending"]
                            ELSE shipments
            /\ Finish(r)
    /\ UNCHANGED <<orders, refunds, sessions, timed>>

\* ---------------------------------------------------------------- shipping (admin)
\* shippingModel.updateStatus: UPDATE shipments SET status = ?
UpdateShipmentStatus(o, status) ==
    /\ shipments[o] # "none"
    /\ shipments[o] # status
    /\ shipments' = [shipments EXCEPT ![o] = status]
    /\ UNCHANGED <<wallets, txns, orders, refunds, gateway, sessions, req, timed>>

\* The order subsystem records the confirmation of an order.  No statement of the
\* sources writes orders.is_confirmed; the flag is set by the collaborator that
\* owns the orders table.
MarkOrderConfirmed(o) ==
    /\ OrderExists(o)
    /\ ~orders[o].is_confirmed
    /\ orders' = [orders EXCEPT ![o].is_confirmed = TRUE]
    /\ UNCHANGED <<wallets, txns, shipments, refunds, gateway, sessions, req, timed>>

\* ---------------------------------------------------------------- confirm delivery
\* confirmDelivery without the ownership check
ConfirmDeliveryCheckAnyUser(u, o) ==
    IF ~OrderExists(o) THEN "not_found"
    ELSE IF orders[o].is_confirmed THEN "already_confirmed"
    ELSE IF shipments[o] # "delivered" THEN "not_delivered"
    ELSE "ok"

\* the checks of the confirmDelivery controller, in the order of the code
ConfirmDeliveryCheck(u, o) ==
    IF ~OrderExists(o) THEN "not_found"
    ELSE IF orders[o].user_id # u THEN "denied"
    ELSE IF orders[o].is_confirmed THEN "already_confirmed"
    ELSE IF shipments[o] # "delivered" THEN "not_delivered"
    ELSE "ok"

ConfirmDeliveryStart(r, u, o) ==
    /\ Free(r)
    /\ IF ConfirmDeliveryCheck(u, o) = "ok"
       THEN Goto(r, InFlight("confirmDelivery", "cd_settle", u, o, orders[o].total,
                             shipments[o], 0))
       ELSE Finish(r)
    /\ UNCHANGED <<wallets, txns, orders, shipments, refunds, gateway, sessions, timed>>

\* Wallet.confirmDelivery(orderId, user.id, adminId, order.total)
ConfirmDeliverySettle(r) ==
    /\ req[r].pc = "cd_settle"
    /\ Len(txns) < MaxTxns
    /\ \E dbFail \in BOOLEAN :
         LET res == ConfirmDelivery(wallets, txns, req[r].id, req[r].user, AdminId,
                                    req[r].amt, dbFail)
         IN /\ wallets' = res.wallets
            /\ txns' = res.txns
            /\ gateway' = IF res.ok THEN Append(gateway, "none") ELSE gateway
            /\ Finish(r)
    /\ UNCHANGED <<orders, shipments, refunds, sessions, timed>>

\* ---------------------------------------------------------------- refund requests
\* requestRefund without the is_confirmed check
RequestRefundCheckNoGate(u, o) ==
    IF ~OrderExists(o) THEN "not_found"
    ELSE IF orders[o].user_id # u THEN "denied"
    ELSE "ok"

\* the order checks of requestRefund
RequestRefundCheck(u, o) ==
    IF ~OrderExists(o) THEN "not_found"
    ELSE IF orders[o].user_id # u THEN "denied"
    ELSE IF orders[o].is_confirmed THEN "confirmed"
    ELSE "ok"

RequestRefundStart(r, u, o) ==
    /\ Free(r)
    /\ IF RequestRefundCheck(u, o) = "ok"
       THEN Goto(r, InFlight("requestRefund", "rr_create", u, o, orders[o].total, "none", 0))
       ELSE Finish(r)
    /\ UNCHANGED <<wallets, txns, orders, shipments, refunds, gateway, sessions, timed>>

\* Refund.getByOrderId, then Refund.create(orderId, user.id, shipmentId, order.total)
RequestRefundCreate(r) ==
    /\ req[r].pc = "rr_create"
    /\ IF \E f \in 1..Len(refunds) : refunds[f].order_id = req[r].id
       THEN /\ Finish(r)
            /\ UNCHANGED refunds
       ELSE /\ Len(refunds) < MaxRefunds
            /\ refunds' = Append(refunds, [order_id |-> req[r].id, user_id |-> req[r].user,
                                           amount |-> req[r].amt, status |-> "pending"])
            /\ Finish(r)
    /\ UNCHANGED <<wallets, txns, orders, shipments, gateway, sessions, timed>>

\* the identifiers a provider refund needs from the description of the payment
\* (parsePayPalIdsFromTxn, parseAlipayIdsFromTxn, parseNetsTxnRetrievalRefFromTxn)
HasProviderIds(row) ==
    CASE row.payment_method = "alipay" ->
            row.description.keys \cap {"trade_no", "out_trade_no"} # {}
      [] row.payment_method = "paypal" -> "capture_id" \in row.description.keys
      [] row.payment_method = "nets" -> "txn_retrieval_ref" \in row.description.keys
      [] OTHER -> FALSE

\* transactions of an order that carry a gateway payment method (Transaction.listByOrder)
OrderGatewayTxns(o) ==
    {t \in 1..Len(txns) : txns[t].order_id = o /\ txns[t].payment_method \in {"alipay", "paypal"}}

\* transactions.find(t => t.payment_method === pm) over the rows of the order,
\* latest first (0: none)
OrderTxnOf(o, pm) ==
    LET rows == {t \in OrderGatewayTxns(o) : txns[t].payment_method = pm}
    IN IF rows = {} THEN 0 ELSE CHOOSE t \in rows : \A q \in rows : q <= t

\* refundNow: the order checks, then the lookup of a PayPal or Alipay transaction
\* of the order (PayPal first); the provider refund needs its identifiers
RefundNowCheck(u, o) ==
    IF ~OrderExists(o) THEN "not_found"
    ELSE IF orders[o].user_id # u THEN "denied"
    ELSE IF orders[o].is_confirmed THEN "confirmed"
    ELSE IF \E t \in OrderGatewayTxns(o) : txns[t].type = "refund" THEN "already_refunded"
    ELSE IF OrderTxnOf(o, "paypal") # 0
    THEN (IF HasProviderIds(txns[OrderTxnOf(o, "paypal")]) THEN "paypal" ELSE "no_provider_id")
    ELSE IF OrderTxnOf(o, "alipay") = 0 THEN "no_payment_method"
    ELSE IF HasProviderIds(txns[OrderTxnOf(o, "alipay")]) THEN "alipay"
    ELSE "no_provider_id"

\* the row refundNow and processRefund record after a provider-side refund
ProviderRefundRow(userId, orderId, pm, amount) ==
    TxnRow(userId, orderId, "refund", pm, amount, 0, 0, "completed",
           Desc("Refunded via provider",
                IF pm = "paypal" THEN {"refund_id", "capture_id", "order_id"}
                ELSE {"refund_fee", "trade_no", "out_request_no"}, 0))

\* refundNow: the provider refund call, then Transaction.create of the refund row
\* (an error of the INSERT is logged and ignored)
RefundNow(u, o) ==
    /\ IF RefundNowCheck(u, o) \in {"paypal", "alipay"}
       THEN /\ Len(txns) < MaxTxns
            /\ \E providerOk \in BOOLEAN, createErr \in BOOLEAN :
                 IF providerOk /\ ~createErr
                 THEN /\ txns' = Append(txns, ProviderRefundRow(u, o, RefundNowCheck(u, o),
                                                                orders[o].total))
                      /\ gateway' = Append(gateway, "none")
                 ELSE UNCHANGED <<txns, gateway>>
       ELSE UNCHANGED <<txns, gateway>>
    /\ UNCHANGED <<wallets, orders, shipments, refunds, sessions, req, timed>>

\* ---------------------------------------------------------------- process refund (admin)
\* processRefund: Refund.getById and the status check
ProcessRefundStart(r, f, action) ==
    /\ Free(r)
    /\ IF ~RefundExists(f)
       THEN Finish(r)
       ELSE IF refunds[f].status # "pending"
       THEN Finish(r)
       ELSE Goto(r, InFlight("processRefund", IF action = "approve" THEN "pr_approve" ELSE "pr_reject",
                             AdminId, f, refunds[f].amount, refunds[f].status, 0))
    /\ UNCHANGED <<wallets, txns, orders, shipments, refunds, gateway, sessions, timed>>

\* refundControllers.processRefund, approve: the provider the refund goes to, read
\* from the transactions of the order (PayPal with a capture id, else Alipay with
\* its trade ids, else the wallet)
ProcessRefundRoute(o) ==
    IF OrderTxnOf(o, "paypal") # 0 /\ HasProviderIds(txns[OrderTxnOf(o, "paypal")]) THEN "paypal"
    ELSE IF OrderTxnOf(o, "alipay") # 0 /\ HasProviderIds(txns[OrderTxnOf(o, "alipay")]) THEN "alipay"
    ELSE "wallet"

\* finalizeWithWallet, first step (the route is the wallet, or the Alipay refund failed)
\* Refund.approve: UPDATE refund_requests SET status = 'approved' WHERE id = ?
ProcessRefundApprove(r) ==
    /\ req[r].pc = "pr_approve"
    /\ ProcessRefundRoute(refunds[req[r].id].order_id) = "wallet" \/ req[r].obs = "wallet"
    /\ \E dbFail \in BOOLEAN :
         IF dbFail
         THEN /\ Finish(r)
              /\ UNCHANGED refunds
         ELSE /\ refunds' = [refunds EXCEPT ![req[r].id].status = "approved"]
              /\ Goto(r, [req[r] EXCEPT !.pc = "pr_wallet"])
    /\ UNCHANGED <<wallets, txns, orders, shipments, gateway, sessions, timed>>

\* Wallet.refund(refund.order_id, refund.user_id, refundAmount)
ProcessRefundWallet(r) ==
    /\ req[r].pc = "pr_wallet"
    /\ Len(txns) < MaxTxns
    /\ \E dbFail \in BOOLEAN :
         LET f == refunds[req[r].id]
             res == Refund(wallets, txns, f.order_id, f.user_id, req[r].amt, dbFail)
         IN /\ wallets' = res.wallets
            /\ txns' = res.txns
            /\ gateway' = IF res.ok THEN Append(gateway, "none") ELSE gateway
            /\ Finish(r)
    /\ UNCHANGED <<orders, shipments, refunds, sessions, timed>>

\* Refund.reject: UPDATE refund_requests SET status = 'rejected' WHERE id = ?
ProcessRefundReject(r) ==
    /\ req[r].pc = "pr_reject"
    /\ \E dbFail \in BOOLEAN :
         /\ refunds' = IF dbFail THEN refunds
                       ELSE [refunds EXCEPT ![req[r].id].status = "rejected"]
         /\ Finish(r)
    /\ UNCHANGED <<wallets, txns, orders, shipments, gateway, sessions, timed>>

\* refundControllers.processRefund, approve: the provider refund call. PayPal
\* failure: the rejection is swallowed and the handler returns without a response;
\* Alipay failure: finalizeWithWallet, the wallet path from its first step
ProcessRefundProvider(r) ==
    /\ req[r].pc = "pr_approve"
    /\ ProcessRefundRoute(refunds[req[r].id].order_id) # "wallet"
    /\ req[r].obs # "wallet"
    /\ \E providerOk \in BOOLEAN :
         LET route == ProcessRefundRoute(refunds[req[r].id].order_id)
         IN IF providerOk THEN Goto(r, [req[r] EXCEPT !.pc = "pr_record", !.obs = route])
            ELSE IF route = "paypal" THEN Goto(r, [req[r] EXCEPT !.pc = "pr_no_response"])
            ELSE Goto(r, [req[r] EXCEPT !.pc = "pr_approve", !.obs = "wallet"])
    /\ UNCHANGED <<wallets, txns, orders, shipments, refunds, gateway, sessions, timed>>

\* after the provider refund: Refund.approve, then Transaction.create of the
\* refund row (an error of the INSERT is logged and ignored)
ProcessRefundRecord(r) ==
    /\ req[r].pc = "pr_record"
    /\ Len(txns) < MaxTxns
    /\ \E approveErr \in BOOLEAN, createErr \in BOOLEAN :
         LET f == refunds[req[r].id]
         IN IF approveErr
            THEN UNCHANGED <<refunds, txns, gateway>>
            ELSE /\ refunds' = [refunds EXCEPT ![req[r].id].status = "approved"]
                 /\ IF createErr
                    THEN UNCHANGED <<txns, gateway>>
                    ELSE /\ txns' = Append(txns, ProviderRefundRow(f.user_id, f.order_id,
                                                                   req[r].obs, req[r].amt))
                         /\ gateway' = Append(gateway, "none")
    /\ Finish(r)
    /\ UNCHANGED <<wallets, orders, shipments, sessions, timed>>

\* a request the handler never answers ends when the connection is closed
ProcessRefundAbandoned(r) ==
    /\ req[r].pc = "pr_no_response"
    /\ Finish(r)
    /\ UNCHANGED <<wallets, txns, orders, shipments, refunds, gateway, sessions, timed>>
\* cachedAccessToken = null, cachedAccessTokenExpiresAtMs = 0: token 0 is null
NoToken == [token |-> 0, expiresAt |-> 0]

\* a process that has just started: nothing cached, qrSessionStore empty
InitTimed ==
    /\ clock = 0
    /\ tokenCache = NoToken
    /\ sessionTimes = [t \in TxnIds |-> [createdAt |-> 0, usedAt |-> 0, last |-> "none", idleFor |-> 0]]

\* ---------------------------------------------------------------- the order life cycle
\* Registered customers hold a wallet row with balance 0 (Wallet.create(newUserId, 0)
\* at registration); the admin account may have none.
Init ==
    /\ \E adminHasWallet \in BOOLEAN :
         wallets = [u \in AllUsers |->
                      IF u \in Customers \/ adminHasWallet THEN NewWallet(0) ELSE NoWallet]
    /\ txns = <<>>
    /\ orders = <<>>
    /\ shipments = [o \in OrderIds |-> "none"]
    /\ refunds = <<>>
    /\ gateway = <<>>
    /\ sessions = {}
    /\ req = [r \in Reqs |-> ReqIdle]
    /\ InitTimed

\* checkouts and recharges only, any number of them in flight together
CheckoutNext ==
    \/ \E u \in Customers, a \in Amounts : ManualRecharge(u, a)
    \/ \E r \in Reqs, u \in Customers, a \in Amounts : CheckoutStart(r, u, a)
    \/ \E r \in Reqs : CheckoutCreateOrder(r)
    \/ \E r \in Reqs : CheckoutFreeze(r)

SpecCheckout == Init /\ [][CheckoutNext]_vars

\* the first checkout of the shop: no order exists and no checkout is in flight
FirstCheckout(r, u, a) ==
    /\ orders = <<>>
    /\ \A q \in Reqs : req[q].kind # "checkout"
    /\ CheckoutStart(r, u, a)

\* one order followed through its life: paid, shipped, refunded, confirmed
OrderNext ==
    \/ \E u \in Customers, a \in Amounts : ManualRecharge(u, a)
    \/ \E r \in Reqs, u \in Customers, a \in Amounts : FirstCheckout(r, u, a)
    \/ \E r \in Reqs : CheckoutCreateOrder(r)
    \/ \E r \in Reqs : CheckoutFreeze(r)
    \/ \E o \in OrderIds, s \in {"pending", "delivered"} : UpdateShipmentStatus(o, s)
    \/ \E o \in OrderIds : MarkOrderConfirmed(o)
    \/ \E r \in Reqs, u \in Customers, o \in OrderIds : ConfirmDeliveryStart(r, u, o)
    \/ \E r \in Reqs : ConfirmDeliverySettle(r)
    \/ \E r \in Reqs, u \in Customers, o \in OrderIds : RequestRefundStart(r, u, o)
    \/ \E r \in Reqs : RequestRefundCreate(r)
    \/ \E u \in Customers, o \in OrderIds : RefundNow(u, o)
    \/ \E r \in Reqs, f \in RefundIds, action \in {"approve", "reject"} : ProcessRefundStart(r, f, action)
    \/ \E r \in Reqs : ProcessRefundApprove(r)
    \/ \E r \in Reqs : ProcessRefundWallet(r)
    \/ \E r \in Reqs : ProcessRefundReject(r)

SpecOrders == Init /\ [][OrderNext]_vars

\* ---------------------------------------------------------------- orders paid at a provider
\* An order whose payment row carries a gateway payment method. No statement of
\* the sources writes such a row, so it is an input here: the state a wallet
\* checkout of the order leaves (total frozen, one completed purchase row), with
\* the payment method and the identifiers of a provider on the row.
InitProviderOrder ==
    /\ \E adminHasWallet \in BOOLEAN, owner \in Customers, pm \in {"paypal", "alipay"},
          withIds \in BOOLEAN :
         /\ wallets = [u \in AllUsers |->
                         IF u = owner THEN [NewWallet(0) EXCEPT !.frozen_balance = MaxAmount,
                                                                !.total_expense = MaxAmount]
                         ELSE IF u \in Customers \/ adminHasWallet THEN NewWallet(0)
                         ELSE NoWallet]
         /\ orders = <<[user_id |-> owner, total |-> MaxAmount, is_confirmed |-> FALSE]>>
         /\ txns = <<TxnRow(owner, 1, "purchase", pm, -MaxAmount, MaxAmount, 0, "completed",
                            Desc("Payment for order",
                                 IF ~withIds THEN {}
                                 ELSE IF pm = "paypal" THEN {"order_id", "capture_id"}
                                 ELSE {"out_trade_no", "trade_no"}, 0))>>
    /\ shipments = [o \in OrderIds |-> IF o = 1 THEN "pending" ELSE "none"]
    /\ refunds = <<>>
    /\ gateway = <<"none">>
    /\ sessions = {}
    /\ req = [r \in Reqs |-> ReqIdle]
    /\ InitTimed

\* the refunds of such an order: refundNow by the customer, or a refund request
\* that the admin approves (provider first, wallet as the fallback) or rejects
ProviderRefundNext ==
    \/ \E u \in Customers, a \in Amounts : ManualRecharge(u, a)
    \/ \E o \in OrderIds, s \in {"pending", "delivered"} : UpdateShipmentStatus(o, s)
    \/ \E u \in Customers, o \in OrderIds : RefundNow(u, o)
    \/ \E r \in Reqs, u \in Customers, o \in OrderIds : RequestRefundStart(r, u, o)
    \/ \E r \in Reqs : RequestRefundCreate(r)
    \/ \E r \in Reqs, f \in RefundIds, action \in {"approve", "reject"} : ProcessRefundStart(r, f, action)
    \/ \E r \in Reqs : ProcessRefundProvider(r)
    \/ \E r \in Reqs : ProcessRefundRecord(r)
    \/ \E r \in Reqs : ProcessRefundAbandoned(r)
    \/ \E r \in Reqs : ProcessRefundApprove(r)
    \/ \E r \in Reqs : ProcessRefundWallet(r)
    \/ \E r \in Reqs : ProcessRefundReject(r)

SpecProviderRefund == InitProviderOrder /\ [][ProviderRefundNext]_vars

\* ---------------------------------------------------------------- processRefund, awaited
\* The admin's browser waits for the response of processRefund: the connection is
\* not closed from outside, so a request ends only when the handler answers it.
ProcessRefundLiveNext ==
    \/ \E o \in OrderIds, s \in {"pending", "delivered"} : UpdateShipmentStatus(o, s)
    \/ \E r \in Reqs, u \in Customers, o \in OrderIds : RequestRefundStart(r, u, o)
    \/ \E r \in Reqs : RequestRefundCreate(r)
    \/ \E r \in Reqs, f \in RefundIds, action \in {"approve", "reject"} : ProcessRefundStart(r, f, action)
    \/ \E r \in Reqs : ProcessRefundProvider(r)
    \/ \E r \in Reqs : ProcessRefundRecord(r)
    \/ \E r \in Reqs : ProcessRefundApprove(r)
    \/ \E r \in Reqs : ProcessRefundWallet(r)
    \/ \E r \in Reqs : ProcessRefundReject(r)

\* every provider call settles (resolves or rejects) and every database callback
\* is called: a step of the handler that can run does run
ProcessRefundFairness ==
    \A r \in Reqs :
        /\ WF_vars(ProcessRefundProvider(r))
        /\ WF_vars(ProcessRefundRecord(r))
        /\ WF_vars(ProcessRefundApprove(r))
        /\ WF_vars(ProcessRefundWallet(r))
        /\ WF_vars(ProcessRefundReject(r))

SpecProcessRefundLive ==
    InitProviderOrder /\ [][ProcessRefundLiveNext]_vars /\ ProcessRefundFairness

\* ---------------------------------------------------------------- gateway recharges
\* the SELECT without "AND user_id = ?"
OwnTxnAnyUser(t, id, userId) == id \in 1..Len(t)

\* SELECT ... FROM transactions WHERE id = ? AND user_id = ?
OwnTxn(t, id, userId) == id \in 1..Len(t) /\ t[id].user_id = userId

\* what the provider reports for the charge behind reference ref
ProviderState(ref) == IF ref \in 1..Len(gateway) THEN gateway[ref] ELSE "none"

\* result of a finalization unit of work
Finalized(status, w, t) == [ok |-> TRUE, status |-> status, wallets |-> w, txns |-> t]
FinalizeError(w, t) == [ok |-> FALSE, status |-> "error", wallets |-> w, txns |-> t]

\* createPendingRechargeTransaction: ensure the wallet row, then
\* INSERT (user, NULL, 'recharge', pm, amount, balance, balance, 'pending', description)
CreatePending(w, t, userId, pm, amount, description) ==
    LET w0 == EnsureWallet(w, userId)
    IN [wallets |-> w0,
        txns |-> Append(t, TxnRow(userId, 0, "recharge", pm, amount,
                                  w0[userId].balance, w0[userId].balance, "pending", description))]

\* the tail of every finalization: ensure the wallet row, lock it, balance += amount,
\* UPDATE transactions SET balance_before, balance_after, status = 'completed', description
CreditAndComplete(w, t, id, description) ==
    LET userId == t[id].user_id
        w0 == EnsureWallet(w, userId)
        balanceBefore == w0[userId].balance
        balanceAfter == balanceBefore + t[id].amount
    IN Finalized("paid",
                 [w0 EXCEPT ![userId].balance = @ + t[id].amount],
                 [t EXCEPT ![id].balance_before = balanceBefore,
                           ![id].balance_after = balanceAfter,
                           ![id].status = "completed",
                           ![id].description = description])

\* tryFinalizeTransaction marking the row failed when the trade query fails
AlipayTryFinalizeFailOnError(w, t, id, userId, trade, dbFail) ==
    IF dbFail \/ ~OwnTxn(t, id, userId) THEN FinalizeError(w, t)
    ELSE IF t[id].type # "recharge" \/ t[id].payment_method # "alipay" THEN FinalizeError(w, t)
    ELSE IF t[id].status = "completed" THEN Finalized("paid", w, t)
    ELSE IF trade \in {"error", "none"} THEN FinalizeError(w, [t EXCEPT ![id].status = "failed"])
    ELSE IF trade # "paid" THEN Finalized("pending", w, t)
    ELSE CreditAndComplete(w, t, id, Desc("Alipay sandbox recharge", {"out_trade_no", "trade_no"}, 0))

\* Alipay tryFinalizeTransaction: one database transaction that locks the row,
\* queries the provider while it holds the lock, and credits on TRADE_SUCCESS
AlipayTryFinalize(w, t, id, userId, trade, dbFail) ==
    IF dbFail \/ ~OwnTxn(t, id, userId) THEN FinalizeError(w, t)
    ELSE IF t[id].type # "recharge" \/ t[id].payment_method # "alipay" THEN FinalizeError(w, t)
    ELSE IF t[id].status = "completed" THEN Finalized("paid", w, t)
    ELSE IF trade \in {"error", "none"} THEN FinalizeError(w, t)
    ELSE IF trade # "paid" THEN Finalized("pending", w, t)
    ELSE CreditAndComplete(w, t, id, Desc("Alipay sandbox recharge", {"out_trade_no", "trade_no"}, 0))

\* Alipay handleStatus: the answer after tryFinalizeTransaction; an error is
\* answered as { status: 'pending', paid: false }
AlipayStatusAnswer(res) == IF ~res.ok THEN "pending" ELSE res.status

\* finalizeRechargeTransaction without the look at the status of the locked row
PayPalFinalizeRechargeNoReCheck(w, t, id, userId, dbFail) ==
    IF dbFail \/ ~OwnTxn(t, id, userId) THEN FinalizeError(w, t)
    ELSE IF t[id].type # "recharge" \/ t[id].payment_method # "paypal" THEN FinalizeError(w, t)
    ELSE CreditAndComplete(w, t, id, Desc("PayPal sandbox recharge", {"order_id", "capture_id"}, 0))

\* PayPal finalizeRechargeTransaction
PayPalFinalizeRecharge(w, t, id, userId, dbFail) ==
    IF dbFail \/ ~OwnTxn(t, id, userId) THEN FinalizeError(w, t)
    ELSE IF t[id].type # "recharge" \/ t[id].payment_method # "paypal" THEN FinalizeError(w, t)
    ELSE IF t[id].status = "completed" THEN Finalized("paid", w, t)
    ELSE CreditAndComplete(w, t, id, Desc("PayPal sandbox recharge", {"order_id", "capture_id"}, 0))

\* markAuthorizedFromGateway without "AND status = 'pending'" in its UPDATE
MarkAuthorizedNoStatusFilter(t, id, userId) ==
    IF /\ OwnTxn(t, id, userId)
       /\ t[id].type = "recharge"
       /\ t[id].payment_method = "nets"
    THEN [t EXCEPT ![id].status = "authorized",
                   ![id].description = Desc("NETS recharge (authorized)",
                                            {"response_code", "txn_status", "txn_retrieval_ref"}, 0)]
    ELSE t

\* NETS markAuthorizedFromGateway: UPDATE ... SET status = 'authorized'
\* WHERE id, user_id, type = 'recharge', payment_method = 'nets', status = 'pending'
MarkAuthorizedFromGateway(t, id, userId) ==
    IF /\ OwnTxn(t, id, userId)
       /\ t[id].type = "recharge"
       /\ t[id].payment_method = "nets"
       /\ t[id].status = "pending"
    THEN [t EXCEPT ![id].status = "authorized",
                   ![id].description = Desc("NETS recharge (authorized)",
                                            {"response_code", "txn_status", "txn_retrieval_ref"}, 0)]
    ELSE t

\* NETS tryFinalizeTransaction: credits only an authorized row
NetsTryFinalize(w, t, id, userId, dbFail) ==
    IF dbFail \/ ~OwnTxn(t, id, userId) THEN FinalizeError(w, t)
    ELSE IF t[id].type # "recharge" \/ t[id].payment_method # "nets" THEN FinalizeError(w, t)
    ELSE IF t[id].status = "completed" THEN Finalized("paid", w, t)
    ELSE IF t[id].status # "authorized" THEN Finalized("pending", w, t)
    ELSE CreditAndComplete(w, t, id, [t[id].description EXCEPT !.tag = "NETS recharge (completed)"])

\* handleFaceComplete: locks the row of the session user and credits its amount
\* unless it is completed; it looks at neither type nor payment_method
FaceComplete(w, t, id, userId, dbFail) ==
    IF dbFail THEN FinalizeError(w, t)
    ELSE IF ~OwnTxn(t, id, userId) THEN Finalized("not_found", w, t)
    ELSE IF t[id].status = "completed" THEN Finalized("paid", w, t)
    ELSE CreditAndComplete(w, t, id, Desc("Alipay facepay sandbox recharge", {"out_trade_no"}, 0))

\* ---------------------------------------------------------------- starting a gateway recharge
\* the recharges started through a gateway
GatewayRecharges ==
    {t \in 1..Len(txns) : txns[t].type = "recharge" /\ txns[t].payment_method # "null"}

\* Alipay handleStart: createPendingRechargeTransaction, then the signed pay URL
AlipayStart(u, amount) ==
    /\ Len(txns) < MaxTxns
    /\ Cardinality(GatewayRecharges) < MaxRecharges
    /\ \E dbFail \in BOOLEAN :
         IF dbFail
         THEN UNCHANGED <<wallets, txns, gateway>>
         ELSE LET c == CreatePending(wallets, txns, u, "alipay", amount,
                                     Desc("Alipay sandbox recharge (pending)", {}, 0))
              IN /\ wallets' = c.wallets
                 /\ txns' = c.txns
                 /\ gateway' = Append(gateway, "unpaid")
    /\ UNCHANGED <<orders, shipments, refunds, sessions, req, timed>>

\* PayPal handleStart: createPendingRechargeTransaction, createOrder at the provider,
\* updateTransactionPayPalOrderId; when createOrder fails the row keeps no order id
PayPalStart(u, amount) ==
    /\ Len(txns) < MaxTxns
    /\ Cardinality(GatewayRecharges) < MaxRecharges
    /\ \E dbFail \in BOOLEAN, orderOk \in BOOLEAN :
         IF dbFail
         THEN UNCHANGED <<wallets, txns, gateway>>
         ELSE LET c == CreatePending(wallets, txns, u, "paypal", amount,
                          IF orderOk
                          THEN Desc("PayPal sandbox recharge (pending)", {"paypal_order_id"}, 0)
                          ELSE Desc("PayPal sandbox recharge (pending)", {}, 0))
              IN /\ wallets' = c.wallets
                 /\ txns' = c.txns
                 /\ gateway' = Append(gateway, IF orderOk THEN "unpaid" ELSE "none")
    /\ UNCHANGED <<orders, shipments, refunds, sessions, req, timed>>

\* NETS handleStart: createPendingRechargeTransaction, requestQrCode, which
\* stores the QR session under the out_trade_no
NetsStart(u, amount) ==
    /\ Len(txns) < MaxTxns
    /\ Cardinality(GatewayRecharges) < MaxRecharges
    /\ \E dbFail \in BOOLEAN, qrOk \in BOOLEAN :
         IF dbFail
         THEN UNCHANGED <<wallets, txns, gateway, sessions>>
         ELSE LET c == CreatePending(wallets, txns, u, "nets", amount,
                                     Desc("NETS recharge (pending)", {}, 0))
              IN /\ wallets' = c.wallets
                 /\ txns' = c.txns
                 /\ gateway' = Append(gateway, IF qrOk THEN "unpaid" ELSE "none")
                 /\ sessions' = IF qrOk THEN sessions \cup {Len(txns) + 1} ELSE sessions
    /\ UNCHANGED <<orders, shipments, refunds, req, timed>>

\* the payer pays at the provider (PayPal: approves the order, which is then captured)
ProviderPay(t) ==
    /\ TxnExists(t)
    /\ gateway[t] = "unpaid"
    /\ gateway' = [gateway EXCEPT ![t] = IF txns[t].payment_method = "paypal"
                                         THEN "approved" ELSE "paid"]
    /\ UNCHANGED <<wallets, txns, orders, shipments, refunds, sessions, req, timed>>

\* 30 minutes pass after the QR session of t was created; getSession drops it
SessionExpire(t) ==
    /\ t \in sessions
    /\ sessions' = sessions \ {t}
    /\ UNCHANGED <<wallets, txns, orders, shipments, refunds, gateway, req, timed>>

\* ---------------------------------------------------------------- Alipay status
\* Alipay handleStatus without the completed short cut
AlipayStatusCheckNoShortCut(u, t) ==
    IF ~OwnTxn(txns, t, u) THEN "not_found" ELSE "finalize"

\* Alipay handleStatus up to the call of tryFinalizeTransaction
AlipayStatusCheck(u, t) ==
    IF ~OwnTxn(txns, t, u) THEN "not_found"
    ELSE IF txns[t].status = "completed" THEN "paid"
    ELSE "finalize"

AlipayStatusStart(r, u, t) ==
    /\ Free(r)
    /\ IF AlipayStatusCheck(u, t) = "finalize"
       THEN Goto(r, InFlight("alipayStatus", "ali_finalize", u, t, 0, txns[t].status, 0))
       ELSE Finish(r)
    /\ UNCHANGED <<wallets, txns, orders, shipments, refunds, gateway, sessions, timed>>

AlipayStatusFinalize(r) ==
    /\ req[r].pc = "ali_finalize"
    /\ \E dbFail \in BOOLEAN, queryOk \in BOOLEAN :
         LET res == AlipayTryFinalize(wallets, txns, req[r].id, req[r].user,
                                      IF queryOk THEN ProviderState(req[r].id) ELSE "error",
                                      dbFail)
         IN /\ wallets' = res.wallets
            /\ txns' = res.txns
            /\ Finish(r)
    /\ UNCHANGED <<orders, shipments, refunds, gateway, sessions, timed>>

\* Alipay handleFaceComplete
HandleFaceComplete(u, t) ==
    /\ \E dbFail \in BOOLEAN :
         LET res == FaceComplete(wallets, txns, t, u, dbFail)
         IN /\ wallets' = res.wallets
            /\ txns' = res.txns
            /\ UNCHANGED req
    /\ UNCHANGED <<orders, shipments, refunds, gateway, sessions, timed>>

\* ---------------------------------------------------------------- PayPal status
\* PayPal handleStatus up to the getOrder call
PayPalStatusCheck(u, t) ==
    IF ~OwnTxn(txns, t, u) THEN "not_found"
    ELSE IF txns[t].status = "completed" THEN "paid"
    ELSE IF "paypal_order_id" \notin txns[t].description.keys THEN "pending"
    ELSE "query"

PayPalStatusStart(r, u, t) ==
    /\ Free(r)
    /\ IF PayPalStatusCheck(u, t) = "query"
       THEN Goto(r, InFlight("paypalStatus", "pp_get", u, t, 0, txns[t].status, 0))
       ELSE Finish(r)
    /\ UNCHANGED <<wallets, txns, orders, shipments, refunds, gateway, sessions, timed>>

\* PayPal handleStatus after getOrder: APPROVED is captured, COMPLETED is
\* finalized, anything else and every thrown error (the catch) answers 'pending'
PayPalQueryNext(queryOk, state) ==
    IF ~queryOk THEN "pending"
    ELSE IF state = "approved" THEN "pp_capture"
    ELSE IF state = "paid" THEN "pp_finalize"
    ELSE "pending"

\* getOrder: APPROVED leads to the capture, COMPLETED to the finalization
PayPalGetOrder(r) ==
    /\ req[r].pc = "pp_get"
    /\ \E queryOk \in BOOLEAN :
         LET next == PayPalQueryNext(queryOk, ProviderState(req[r].id))
         IN IF next = "pending" THEN Finish(r) ELSE Goto(r, [req[r] EXCEPT !.pc = next])
    /\ UNCHANGED <<wallets, txns, orders, shipments, refunds, gateway, sessions, timed>>

\* captureOrder: the provider captures an approved order once; the call may fail
\* before the capture ("fail") or after it ("lost")
PayPalCapture(r) ==
    /\ req[r].pc = "pp_capture"
    /\ \E outcome \in {"ok", "fail", "lost"} :
         IF outcome # "fail" /\ ProviderState(req[r].id) = "approved"
         THEN /\ gateway' = [gateway EXCEPT ![req[r].id] = "paid"]
              /\ IF outcome = "ok"
                 THEN Goto(r, [req[r] EXCEPT !.pc = "pp_finalize"])
                 ELSE Finish(r)
         ELSE /\ UNCHANGED gateway
              /\ Finish(r)
    /\ UNCHANGED <<wallets, txns, orders, shipments, refunds, sessions, timed>>

PayPalFinalize(r) ==
    /\ req[r].pc = "pp_finalize"
    /\ \E dbFail \in BOOLEAN :
         LET res == PayPalFinalizeRecharge(wallets, txns, req[r].id, req[r].user, dbFail)
         IN /\ wallets' = res.wallets
            /\ txns' = res.txns
            /\ Finish(r)
    /\ UNCHANGED <<orders, shipments, refunds, gateway, sessions, timed>>

\* ---------------------------------------------------------------- NETS status
\* NETS handleStatus up to its first awaited call
NetsStatusCheck(u, t) ==
    IF ~OwnTxn(txns, t, u) THEN "not_found"
    ELSE IF txns[t].status = "completed" THEN "paid"
    ELSE IF txns[t].status = "authorized" THEN "finalize"
    ELSE IF t \notin sessions THEN "pending"
    ELSE "query"

NetsStatusStart(r, u, t) ==
    /\ Free(r)
    /\ IF NetsStatusCheck(u, t) = "query"
       THEN Goto(r, InFlight("netsStatus", "nets_query", u, t, 0, txns[t].status, t))
       ELSE IF NetsStatusCheck(u, t) = "finalize"
       THEN Goto(r, InFlight("netsStatus", "nets_finalize", u, t, 0, txns[t].status, t))
       ELSE Finish(r)
    /\ UNCHANGED <<wallets, txns, orders, shipments, refunds, gateway, sessions, timed>>

\* NETS handleStatus after the query: response_code '00' with txn_status 1 goes on
\* to markAuthorizedFromGateway, anything else and every thrown error answers 'pending'
NetsQueryNext(queryOk, state) ==
    IF queryOk /\ state = "paid" THEN "nets_mark" ELSE "pending"

\* queryQrTransaction(config, session.txnRetrievalRef, 0): paid is
\* response_code '00' with txn_status 1
NetsQuery(r) ==
    /\ req[r].pc = "nets_query"
    /\ \E queryOk \in BOOLEAN :
         LET next == NetsQueryNext(queryOk, ProviderState(req[r].ref))
         IN IF next = "pending" THEN Finish(r) ELSE Goto(r, [req[r] EXCEPT !.pc = next])
    /\ UNCHANGED <<wallets, txns, orders, shipments, refunds, gateway, sessions, timed>>

NetsMark(r) ==
    /\ req[r].pc = "nets_mark"
    /\ \E dbFail \in BOOLEAN :
         IF dbFail
         THEN /\ UNCHANGED txns
              /\ Finish(r)
         ELSE /\ txns' = MarkAuthorizedFromGateway(txns, req[r].id, req[r].user)
              /\ Goto(r, [req[r] EXCEPT !.pc = "nets_finalize"])
    /\ UNCHANGED <<wallets, orders, shipments, refunds, gateway, sessions, timed>>

NetsFinalize(r) ==
    /\ req[r].pc = "nets_finalize"
    /\ \E dbFail \in BOOLEAN :
         LET res == NetsTryFinalize(wallets, txns, req[r].id, req[r].user, dbFail)
         IN /\ wallets' = res.wallets
            /\ txns' = res.txns
            /\ Finish(r)
    /\ UNCHANGED <<orders, shipments, refunds, gateway, sessions, timed>>

\* ---------------------------------------------------------------- NETS SSE stream
\* handleSsePaymentStatus: the transaction must be one of the session user; the
\* txnRetrievalRef polled is the one of the URL; amt counts the polls
SseStart(r, u, t, ref) ==
    /\ Free(r)
    /\ IF OwnTxn(txns, t, u)
       THEN Goto(r, InFlight("sse", "sse_wait", u, t, 0, "none", ref))
       ELSE Finish(r)
    /\ UNCHANGED <<wallets, txns, orders, shipments, refunds, gateway, sessions, timed>>

\* one tick of the interval: query, then mark and finalize when paid,
\* Timeout after MaxPolls polls
SsePoll(r) ==
    /\ req[r].pc = "sse_wait"
    /\ \E queryOk \in BOOLEAN :
         IF ~queryOk
         THEN Finish(r)
         ELSE IF ProviderState(req[r].ref) = "paid"
         THEN Goto(r, [req[r] EXCEPT !.pc = "sse_mark", !.amt = @ + 1])
         ELSE IF req[r].amt + 1 >= MaxPolls
         THEN Finish(r)
         ELSE Goto(r, [req[r] EXCEPT !.amt = @ + 1])
    /\ UNCHANGED <<wallets, txns, orders, shipments, refunds, gateway, sessions, timed>>

\* req.on('close'): the client goes away and the interval is cleared
SseClose(r) ==
    /\ req[r].pc = "sse_wait"
    /\ Finish(r)
    /\ UNCHANGED <<wallets, txns, orders, shipments, refunds, gateway, sessions, timed>>

\* markAuthorizedFromGateway; its callback ignores the error
SseMark(r) ==
    /\ req[r].pc = "sse_mark"
    /\ \E dbFail \in BOOLEAN :
         txns' = IF dbFail THEN txns
                 ELSE MarkAuthorizedFromGateway(txns, req[r].id, req[r].user)
    /\ Goto(r, [req[r] EXCEPT !.pc = "sse_finalize"])
    /\ UNCHANGED <<wallets, orders, shipments, refunds, gateway, sessions, timed>>

\* tryFinalizeTransaction; its callback ignores error and result and writes success
SseFinalize(r) ==
    /\ req[r].pc = "sse_finalize"
    /\ \E dbFail \in BOOLEAN :
         LET res == NetsTryFinalize(wallets, txns, req[r].id, req[r].user, dbFail)
         IN /\ wallets' = res.wallets
            /\ txns' = res.txns
    /\ Finish(r)
    /\ UNCHANGED <<orders, shipments, refunds, gateway, sessions, timed>>

\* ---------------------------------------------------------------- the gateway recharges
GatewayNext ==
    \/ \E u \in Customers, a \in Amounts : AlipayStart(u, a)
    \/ \E u \in Customers, a \in Amounts : PayPalStart(u, a)
    \/ \E u \in Customers, a \in Amounts : NetsStart(u, a)
    \/ \E t \in TxnIds : ProviderPay(t)
    \/ \E t \in TxnIds : SessionExpire(t)
    \/ \E r \in Reqs, u \in Customers, t \in TxnIds : AlipayStatusStart(r, u, t)
    \/ \E r \in Reqs : AlipayStatusFinalize(r)
    \/ \E u \in Customers, t \in TxnIds : HandleFaceComplete(u, t)
    \/ \E r \in Reqs, u \in Customers, t \in TxnIds : PayPalStatusStart(r, u, t)
    \/ \E r \in Reqs : PayPalGetOrder(r)
    \/ \E r \in Reqs : PayPalCapture(r)
    \/ \E r \in Reqs : PayPalFinalize(r)
    \/ \E r \in Reqs, u \in Customers, t \in TxnIds : NetsStatusStart(r, u, t)
    \/ \E r \in Reqs : NetsQuery(r)
    \/ \E r \in Reqs : NetsMark(r)
    \/ \E r \in Reqs : NetsFinalize(r)
    \/ \E r \in Reqs, u \in Customers, t \in TxnIds, ref \in TxnIds : SseStart(r, u, t, ref)
    \/ \E r \in Reqs : SsePoll(r)
    \/ \E r \in Reqs : SseClose(r)
    \/ \E r \in Reqs : SseMark(r)
    \/ \E r \in Reqs : SseFinalize(r)

SpecGateway == Init /\ [][GatewayNext]_vars

\* ---------------------------------------------------------------- NETS SSE stream, tick by tick
\* handleSsePaymentStatus with the interval and the awaited calls apart: a tick
\* of setInterval starts a provider query and returns to the event loop, the
\* response of the query resumes the callback later, and the next tick does not
\* wait for it.  The locals of the handler live in its slot: amt is pollCount,
\* timer the interval (TRUE until clearInterval), fts frontendTimeoutStatus,
\* waiting the queries whose response is outstanding, marks and finals the
\* callbacks of markAuthorizedFromGateway and tryFinalizeTransaction that are
\* outstanding, queries and ftsQueries the provider queries sent so far (all,
\* and those with frontend_timeout_status = 1), last the last closing event written.
SseStream(u, t, ref) ==
    [kind |-> "sseStream", pc |-> "sse_open", user |-> u, id |-> t, amt |-> 0,
     obs |-> "none", ref |-> ref, timer |-> TRUE, fts |-> 0, waiting |-> 0,
     marks |-> 0, finals |-> 0, queries |-> 0, ftsQueries |-> 0, last |-> "none"]

\* getTransactionById, then setInterval(..., 5000) and req.on('close', ...)
SseOpen(r, u, t, ref) ==
    /\ Free(r)
    /\ \E dbFail \in BOOLEAN :
         IF ~dbFail /\ OwnTxn(txns, t, u)
         THEN Goto(r, SseStream(u, t, ref))
         ELSE Finish(r)
    /\ UNCHANGED <<wallets, txns, orders, shipments, refunds, gateway, sessions, timed>>

\* the interval fires: pollCount += 1 and queryQrTransaction(config,
\* txnRetrievalRef, frontendTimeoutStatus) is called and awaited
SseTick(r) ==
    /\ req[r].pc = "sse_open"
    /\ req[r].timer
    /\ req[r].amt < MaxPolls + MaxLate
    /\ Goto(r, [req[r] EXCEPT !.amt = @ + 1,
                              !.waiting = @ + 1,
                              !.queries = @ + 1,
                              !.ftsQueries = @ + req[r].fts])
    /\ UNCHANGED <<wallets, txns, orders, shipments, refunds, gateway, sessions, timed>>

\* the locals after the response of one query: a thrown error ends the stream;
\* response_code '00' with txn_status 1 starts markAuthorizedFromGateway and
\* returns (the interval goes on); with frontendTimeoutStatus 1 any other answer
\* ends the stream as failed; otherwise pollCount >= maxPolls clears the
\* interval, sets frontendTimeoutStatus = 1 and writes Timeout
SseAfterResponse(l, queryOk, state) ==
    LET l0 == [l EXCEPT !.waiting = @ - 1]
    IN IF ~queryOk THEN [l0 EXCEPT !.timer = FALSE, !.last = "error"]
       ELSE IF state = "paid" THEN [l0 EXCEPT !.marks = @ + 1]
       ELSE IF l.fts = 1 THEN [l0 EXCEPT !.timer = FALSE, !.last = "fail"]
       ELSE IF l.amt >= MaxPolls
            THEN [l0 EXCEPT !.timer = FALSE, !.fts = 1, !.last = "timeout"]
       ELSE l0

\* the response of an outstanding query arrives and the callback resumes
SseResponse(r) ==
    /\ req[r].pc = "sse_open"
    /\ req[r].waiting > 0
    /\ \E queryOk \in BOOLEAN :
         Goto(r, SseAfterResponse(req[r], queryOk, ProviderState(req[r].ref)))
    /\ UNCHANGED <<wallets, txns, orders, shipments, refunds, gateway, sessions, timed>>

\* the callback of markAuthorizedFromGateway (its error is ignored) calls
\* tryFinalizeTransaction
SseMarked(r) ==
    /\ req[r].pc = "sse_open"
    /\ req[r].marks > 0
    /\ \E dbFail \in BOOLEAN :
         txns' = IF dbFail THEN txns
                 ELSE MarkAuthorizedFromGateway(txns, req[r].id, req[r].user)
    /\ Goto(r, [req[r] EXCEPT !.marks = @ - 1, !.finals = @ + 1])
    /\ UNCHANGED <<wallets, orders, shipments, refunds, gateway, sessions, timed>>

\* the callback of tryFinalizeTransaction (error and result are ignored) writes
\* { success: true }, clears the interval and ends the stream
SseFinalized(r) ==
    /\ req[r].pc = "sse_open"
    /\ req[r].finals > 0
    /\ \E dbFail \in BOOLEAN :
         LET res == NetsTryFinalize(wallets, txns, req[r].id, req[r].user, dbFail)
         IN /\ wallets' = res.wallets
            /\ txns' = res.txns
    /\ Goto(r, [req[r] EXCEPT !.finals = @ - 1, !.timer = FALSE, !.last = "success"])
    /\ UNCHANGED <<orders, shipments, refunds, gateway, sessions, timed>>

\* req.on('close'): the client goes away and the interval is cleared
SseDisconnect(r) ==
    /\ req[r].pc = "sse_open"
    /\ req[r].timer
    /\ Goto(r, [req[r] EXCEPT !.timer = FALSE])
    /\ UNCHANGED <<wallets, txns, orders, shipments, refunds, gateway, sessions, timed>>

\* the interval is cleared and no callback is outstanding: nothing of the
\* handler is left to run
SseGone(r) ==
    /\ req[r].pc = "sse_open"
    /\ ~req[r].timer
    /\ req[r].waiting = 0 /\ req[r].marks = 0 /\ req[r].finals = 0
    /\ Finish(r)
    /\ UNCHANGED <<wallets, txns, orders, shipments, refunds, gateway, sessions, timed>>

\* the txnRetrievalRef of the URL: the one of the first charge, or one the
\* provider does not know
SseRefs == {1, MaxTxns}

SseNext ==
    \/ \E u \in Customers, a \in Amounts : NetsStart(u, a)
    \/ \E t \in TxnIds : ProviderPay(t)
    \/ \E r \in Reqs, u \in Customers, t \in TxnIds, ref \in SseRefs : SseOpen(r, u, t, ref)
    \/ \E r \in Reqs : SseTick(r)
    \/ \E r \in Reqs : SseResponse(r)
    \/ \E r \in Reqs : SseMarked(r)
    \/ \E r \in Reqs : SseFinalized(r)
    \/ \E r \in Reqs : SseDisconnect(r)
    \/ \E r \in Reqs : SseGone(r)

SpecSse == Init /\ [][SseNext]_vars

\* ---------------------------------------------------------------- refund of a recharge
\* INSTR(description, 'refund_of_txn_id:<id>') > 0: the decimal digits of id are
\* a prefix of the digits that follow the marker in the description
RECURSIVE DecimalPrefix(_, _)
DecimalPrefix(id, m) ==
    IF m = id THEN TRUE
    ELSE IF m < 10 THEN FALSE
    ELSE DecimalPrefix(id, m \div 10)

MarkerMatches(description, id) ==
    description.marker # 0 /\ DecimalPrefix(id, description.marker)

\* SELECT id, status FROM transactions WHERE user_id = ? AND type = 'refund'
\* AND INSTR(description, marker) > 0 ORDER BY created_at DESC LIMIT 1
\* (0: no row; rows are created in the order of their ids)
LatestRefundOf(t, userId, id) ==
    LET rows == {i \in 1..Len(t) : /\ t[i].user_id = userId
                                   /\ t[i].type = "refund"
                                   /\ MarkerMatches(t[i].description, id)}
    IN IF rows = {} THEN 0 ELSE CHOOSE i \in rows : \A j \in rows : j <= i

\* refundTransaction without the comparison of txn.user_id with the session user
RefundTransactionCheckAnyUser(u, t) ==
    IF ~TxnExists(t) THEN "not_found"
    ELSE IF txns[t].status # "completed" \/ txns[t].type # "recharge" THEN "not_refundable"
    ELSE IF txns[t].amount <= 0 THEN "invalid_amount"
    ELSE IF txns[t].payment_method \notin {"alipay", "paypal", "nets"} THEN "unsupported"
    ELSE IF ~HasProviderIds(txns[t]) THEN "no_provider_id"
    ELSE IF /\ LatestRefundOf(txns, u, t) # 0
            /\ txns[LatestRefundOf(txns, u, t)].status # "failed" THEN "already_refunded"
    ELSE "ok"

\* refundTransaction up to the debit: the checks on the recharge row, then the
\* look for a refund already issued (a plain read inside the debit transaction)
RefundTransactionCheck(u, t) ==
    IF ~TxnExists(t) THEN "not_found"
    ELSE IF txns[t].user_id # u THEN "denied"
    ELSE IF txns[t].status # "completed" \/ txns[t].type # "recharge" THEN "not_refundable"
    ELSE IF txns[t].amount <= 0 THEN "invalid_amount"
    ELSE IF txns[t].payment_method \notin {"alipay", "paypal", "nets"} THEN "unsupported"
    ELSE IF ~HasProviderIds(txns[t]) THEN "no_provider_id"
    ELSE IF /\ LatestRefundOf(txns, u, t) # 0
            /\ txns[LatestRefundOf(txns, u, t)].status # "failed" THEN "already_refunded"
    ELSE "ok"

\* the identifiers written into the description of the processing row
ProcessingKeys(pm) ==
    CASE pm = "paypal" -> {"capture_id", "order_id"}
      [] pm = "alipay" -> {"trade_no", "out_trade_no", "out_request_no"}
      [] OTHER -> {"txn_retrieval_ref", "refund_ref"}

\* the identifiers written into the description of the completed row
RefundedKeys(pm) ==
    CASE pm = "paypal" -> {"refund_id", "capture_id", "order_id"}
      [] pm = "alipay" -> {"refund_fee", "trade_no", "out_request_no"}
      [] OTHER -> {"txn_retrieval_ref", "refund_ref", "response_code", "txn_status"}

\* Wallet.debitBalanceInTx(connection, userId, amount), as the ledger specification
\* states it (the wallet model of the sources does not define it): fails when
\* balance < amount, otherwise balance -= amount
DebitBalanceInTx(w, userId, amount) ==
    IF ~w[userId].exists \/ w[userId].balance < amount
    THEN [ok |-> FALSE, wallets |-> w, balanceBefore |-> 0, balanceAfter |-> 0]
    ELSE [ok |-> TRUE, wallets |-> [w EXCEPT ![userId].balance = @ - amount],
          balanceBefore |-> w[userId].balance, balanceAfter |-> w[userId].balance - amount]

\* Wallet.creditBalanceInTx(connection, userId, amount), as the ledger specification
\* states it: balance += amount
CreditBalanceInTx(w, userId, amount) ==
    IF ~w[userId].exists THEN w ELSE [w EXCEPT ![userId].balance = @ + amount]

\* Transaction.updateStatusAndDescription: UPDATE transactions SET status, description WHERE id
UpdateStatusAndDescription(t, id, status, description) ==
    [t EXCEPT ![id].status = status, ![id].description = description]

RefundTransactionStart(r, u, t) ==
    /\ Free(r)
    /\ \E dbFail \in BOOLEAN :
         IF ~dbFail /\ RefundTransactionCheck(u, t) = "ok"
         THEN Goto(r, InFlight("refundTransaction", "rt_debit", u, t, txns[t].amount,
                               txns[t].payment_method, 0))
         ELSE Finish(r)
    /\ UNCHANGED <<wallets, txns, orders, shipments, refunds, gateway, sessions, timed>>

\* the cap on the log: MaxTxns rows, or MaxLedgerRefunds more rows on a log of
\* LedgerLen rows given as input
LogHasRoom ==
    \/ Len(txns) < MaxTxns
    \/ LedgerLen <= Len(txns) /\ Len(txns) < LedgerLen + MaxLedgerRefunds

\* the rest of the local debit phase: debit, INSERT of the processing row, commit
RefundTransactionDebit(r) ==
    /\ req[r].pc = "rt_debit"
    /\ LogHasRoom
    /\ \E dbFail \in BOOLEAN :
         LET debit == DebitBalanceInTx(wallets, req[r].user, req[r].amt)
         IN IF dbFail \/ ~debit.ok
            THEN /\ Finish(r)
                 /\ UNCHANGED <<wallets, txns, gateway>>
            ELSE /\ wallets' = debit.wallets
                 /\ txns' = Append(txns, TxnRow(req[r].user, 0, "refund", req[r].obs,
                                        -req[r].amt, debit.balanceBefore, debit.balanceAfter,
                                        "processing",
                                        Desc("Refund processing", ProcessingKeys(req[r].obs), req[r].id)))
                 /\ gateway' = Append(gateway, "none")
                 /\ Goto(r, [req[r] EXCEPT !.pc = "rt_provider", !.ref = Len(txns) + 1])
    /\ UNCHANGED <<orders, shipments, refunds, sessions, timed>>

\* the provider refund call (refundTrade, refundCapture, refundWalletRecharge)
RefundTransactionProvider(r) ==
    /\ req[r].pc = "rt_provider"
    /\ \E providerOk \in BOOLEAN :
         Goto(r, [req[r] EXCEPT !.pc = IF providerOk THEN "rt_success" ELSE "rt_compensate"])
    /\ UNCHANGED <<wallets, txns, orders, shipments, refunds, gateway, sessions, timed>>

\* finalizeSuccess: the row becomes completed; an error of the UPDATE is ignored
RefundTransactionSuccess(r) ==
    /\ req[r].pc = "rt_success"
    /\ \E dbFail \in BOOLEAN :
         txns' = IF dbFail THEN txns
                 ELSE UpdateStatusAndDescription(txns, req[r].ref, "completed",
                          Desc("Refunded via provider", RefundedKeys(req[r].obs), req[r].id))
    /\ Finish(r)
    /\ UNCHANGED <<wallets, orders, shipments, refunds, gateway, sessions, timed>>

\* finalizeFail, first part: the compensating credit in a transaction of its own;
\* when no connection is obtained, the transaction does not begin, the credit
\* fails or the commit fails, the handler goes on without the credit
RefundTransactionCompensate(r) ==
    /\ req[r].pc = "rt_compensate"
    /\ \E credited \in BOOLEAN :
         wallets' = IF credited THEN CreditBalanceInTx(wallets, req[r].user, req[r].amt)
                    ELSE wallets
    /\ Goto(r, [req[r] EXCEPT !.pc = "rt_mark_failed"])
    /\ UNCHANGED <<txns, orders, shipments, refunds, gateway, sessions, timed>>

\* finalizeFail, last part: the row becomes failed; an error of the UPDATE is ignored
RefundTransactionMarkFailed(r) ==
    /\ req[r].pc = "rt_mark_failed"
    /\ \E dbFail \in BOOLEAN :
         txns' = IF dbFail THEN txns
                 ELSE UpdateStatusAndDescription(txns, req[r].ref, "failed",
                          Desc("Refund failed", {"reason"}, req[r].id))
    /\ Finish(r)
    /\ UNCHANGED <<wallets, orders, shipments, refunds, gateway, sessions, timed>>

\* an Alipay recharge is paid, completed by the status check and refunded
RefundNext ==
    \/ \E u \in Customers, a \in Amounts : ManualRecharge(u, a)
    \/ \E u \in Customers, a \in Amounts : AlipayStart(u, a)
    \/ \E t \in TxnIds : ProviderPay(t)
    \/ \E r \in Reqs, u \in Customers, t \in TxnIds : AlipayStatusStart(r, u, t)
    \/ \E r \in Reqs : AlipayStatusFinalize(r)
    \/ \E r \in Reqs, u \in Customers, t \in TxnIds : RefundTransactionStart(r, u, t)
    \/ \E r \in Reqs : RefundTransactionDebit(r)
    \/ \E r \in Reqs : RefundTransactionProvider(r)
    \/ \E r \in Reqs : RefundTransactionSuccess(r)
    \/ \E r \in Reqs : RefundTransactionCompensate(r)
    \/ \E r \in Reqs : RefundTransactionMarkFailed(r)

SpecRefund == Init /\ [][RefundNext]_vars

\* ---------------------------------------------------------------- NETS, polled for ever
\* a NETS recharge and the status checks of its payer
NetsNext ==
    \/ \E u \in Customers, a \in Amounts : NetsStart(u, a)
    \/ \E t \in TxnIds : ProviderPay(t)
    \/ \E t \in TxnIds : SessionExpire(t)
    \/ \E r \in Reqs, u \in Customers, t \in TxnIds : NetsStatusStart(r, u, t)
    \/ \E r \in Reqs : NetsQuery(r)
    \/ \E r \in Reqs : NetsMark(r)
    \/ \E r \in Reqs : NetsFinalize(r)

\* the client keeps calling the status check, every request is answered, and
\* the provider query and the database statements succeed again and again;
\* when the payer pays and when a session expires is left open
NetsFairness ==
    /\ \A r \in Reqs : WF_vars(NetsQuery(r)) /\ WF_vars(NetsMark(r)) /\ WF_vars(NetsFinalize(r))
    /\ SF_vars(\E r \in Reqs, u \in Customers, t \in TxnIds :
                  NetsStatusStart(r, u, t) /\ req'[r].pc # "idle")
    /\ SF_vars(\E r \in Reqs : NetsQuery(r) /\ req'[r].pc = "nets_mark")
    /\ SF_vars(\E r \in Reqs : NetsMark(r) /\ txns' # txns)
    /\ SF_vars(\E r \in Reqs : NetsFinalize(r) /\ txns' # txns)

SpecNetsLive == Init /\ [][NetsNext]_vars /\ NetsFairness

\* the same with QR sessions that are never dropped
NetsNextKeepSession ==
    \/ \E u \in Customers, a \in Amounts : NetsStart(u, a)
    \/ \E t \in TxnIds : ProviderPay(t)
    \/ \E r \in Reqs, u \in Customers, t \in TxnIds : NetsStatusStart(r, u, t)
    \/ \E r \in Reqs : NetsQuery(r)
    \/ \E r \in Reqs : NetsMark(r)
    \/ \E r \in Reqs : NetsFinalize(r)

SpecNetsKeepSession == Init /\ [][NetsNextKeepSession]_vars /\ NetsFairness

\* ---------------------------------------------------------------- a longer log
\* A customer with two completed Alipay recharges, the first and the LedgerLen-th
\* row of the log; the rows between them are recharges of the other customer
\* that were started and never paid.
InitLedger ==
    /\ \E owner \in Customers, adminHasWallet \in BOOLEAN :
         /\ wallets = [u \in AllUsers |->
                         IF u = owner THEN NewWallet(2 * MaxAmount)
                         ELSE IF u \in Customers \/ adminHasWallet THEN NewWallet(0)
                         ELSE NoWallet]
         /\ txns = [i \in 1..LedgerLen |->
                      IF i = 1
                      THEN TxnRow(owner, 0, "recharge", "alipay", MaxAmount, 0, MaxAmount,
                                  "completed",
                                  Desc("Alipay sandbox recharge", {"out_trade_no", "trade_no"}, 0))
                      ELSE IF i = LedgerLen
                      THEN TxnRow(owner, 0, "recharge", "alipay", MaxAmount, MaxAmount,
                                  2 * MaxAmount, "completed",
                                  Desc("Alipay sandbox recharge", {"out_trade_no", "trade_no"}, 0))
                      ELSE TxnRow(CHOOSE u \in Customers : u # owner, 0, "recharge", "alipay",
                                  MaxAmount, 0, 0, "pending",
                                  Desc("Alipay sandbox recharge (pending)", {}, 0))]
    /\ gateway = [i \in 1..LedgerLen |-> IF i \in {1, LedgerLen} THEN "paid" ELSE "unpaid"]
    /\ orders = <<>>
    /\ shipments = [o \in OrderIds |-> "none"]
    /\ refunds = <<>>
    /\ sessions = {}
    /\ req = [r \in Reqs |-> ReqIdle]
    /\ InitTimed

\* the recharges a customer asks to refund: the first and the last of that log
LedgerIds == {1, LedgerLen}

\* refunds of the two recharges of that log
LedgerNext ==
    \/ \E r \in Reqs, u \in Customers, t \in LedgerIds : RefundTransactionStart(r, u, t)
    \/ \E r \in Reqs : RefundTransactionDebit(r)
    \/ \E r \in Reqs : RefundTransactionProvider(r)
    \/ \E r \in Reqs : RefundTransactionSuccess(r)
    \/ \E r \in Reqs : RefundTransactionCompensate(r)
    \/ \E r \in Reqs : RefundTransactionMarkFailed(r)

SpecLedger == InitLedger /\ [][LedgerNext]_vars

\* a recharge completed through the face-pay completion endpoint and refunded,
\* with that endpoint open to the customer all along
RefundFaceNext ==
    \/ \E u \in Customers, a \in Amounts : AlipayStart(u, a)
    \/ \E u \in Customers, t \in TxnIds : HandleFaceComplete(u, t)
    \/ \E r \in Reqs, u \in Customers, t \in TxnIds : RefundTransactionStart(r, u, t)
    \/ \E r \in Reqs : RefundTransactionDebit(r)
    \/ \E r \in Reqs : RefundTransactionProvider(r)
    \/ \E r \in Reqs : RefundTransactionSuccess(r)
    \/ \E r \in Reqs : RefundTransactionCompensate(r)
    \/ \E r \in Reqs : RefundTransactionMarkFailed(r)

SpecRefundFace == Init /\ [][RefundFaceNext]_vars

\* ---------------------------------------------------------------- row locks
\* The units of work of the ledger as the sequences of row locks they take between
\* beginTransaction and commit.  A lock is granted when no other open unit holds
\* it and is kept until the unit commits or rolls back.  The contents of the rows
\* are left aside here: only the status of a transaction row decides whether
\* tryFinalizeTransaction goes on to the wallet row.
WalletRow(u) == <<"user_wallets", u>>
TxnRowLock(t) == <<"transactions", t>>

\* the rows a unit locks, in the order of its statements: freezeBalance, refund
\* and recharge lock the wallet row of their user; confirmDelivery updates the
\* payer's wallet row and then selects the admin's FOR UPDATE;
\* tryFinalizeTransaction selects the transaction row FOR UPDATE (no row, no
\* lock) and then the wallet row of its user
LockPlan(op, u, adminId, t) ==
    CASE op = "Wallet.confirmDelivery" -> <<WalletRow(u), WalletRow(adminId)>>
      [] op = "tryFinalizeTransaction" ->
            IF OwnTxn(txns, t, u) THEN <<TxnRowLock(t), WalletRow(u)>> ELSE <<>>
      [] OTHER -> <<WalletRow(u)>>

\* an open unit of work: locks is its plan, got the number of locks it holds
DbTx(op, u, adminId, t) ==
    [kind |-> op, pc |-> "tx_open", user |-> u, id |-> t, amt |-> 0, obs |-> "none",
     ref |-> adminId, locks |-> LockPlan(op, u, adminId, t), got |-> 0]

\* the row locks the request of slot r holds on its connection
Held(r) ==
    IF "locks" \in DOMAIN req[r] THEN {req[r].locks[i] : i \in 1..req[r].got} ELSE {}

\* the unit of slot r is at a statement whose row lock another unit holds
Blocked(r) ==
    /\ "locks" \in DOMAIN req[r]
    /\ req[r].got < Len(req[r].locks)
    /\ \E q \in Reqs \ {r} : req[r].locks[req[r].got + 1] \in Held(q)

\* beginTransaction of Wallet.freezeBalance, Wallet.refund, Wallet.recharge or
\* Wallet.confirmDelivery.  The admin is the row that "SELECT id FROM users WHERE
\* role = 'admin' LIMIT 1" returns: any user id, the same one for the units
\* that are open together
WalletTxBegin(r, op, u, adminId) ==
    /\ Free(r)
    /\ \A q \in Reqs : req[q].kind = "Wallet.confirmDelivery" => req[q].ref = adminId
    /\ Goto(r, DbTx(op, u, adminId, 0))
    /\ UNCHANGED <<wallets, txns, orders, shipments, refunds, gateway, sessions, timed>>

\* NETS handleStatus reaches tryFinalizeTransaction: getConnection, beginTransaction
FinalizeTxBegin(r) ==
    /\ req[r].pc = "nets_finalize"
    /\ Goto(r, DbTx("tryFinalizeTransaction", req[r].user, 0, req[r].id))
    /\ UNCHANGED <<wallets, txns, orders, shipments, refunds, gateway, sessions, timed>>

\* the next statement of the unit takes its row lock; a statement that fails
\* rolls the unit back.  tryFinalizeTransaction commits after the lock of a row
\* that is not authorized, without a statement on the wallet
TxLock(r) ==
    /\ req[r].pc = "tx_open"
    /\ req[r].got < Len(req[r].locks)
    /\ ~Blocked(r)
    /\ \E dbFail \in BOOLEAN :
         IF dbFail THEN Finish(r)
         ELSE IF /\ req[r].kind = "tryFinalizeTransaction"
                 /\ req[r].got = 0
                 /\ txns[req[r].id].status # "authorized"
         THEN Goto(r, [req[r] EXCEPT !.got = 1, !.locks = <<TxnRowLock(req[r].id)>>])
         ELSE Goto(r, [req[r] EXCEPT !.got = @ + 1])
    /\ UNCHANGED <<wallets, txns, orders, shipments, refunds, gateway, sessions, timed>>

\* commit (or rollback) and release: the locks of the unit are free again
TxCommit(r) ==
    /\ req[r].pc = "tx_open"
    /\ req[r].got = Len(req[r].locks)
    /\ Finish(r)
    /\ UNCHANGED <<wallets, txns, orders, shipments, refunds, gateway, sessions, timed>>

WalletOps == {"Wallet.freezeBalance", "Wallet.confirmDelivery", "Wallet.refund", "Wallet.recharge"}

LocksNext ==
    \/ \E u \in Customers, a \in Amounts : NetsStart(u, a)
    \/ \E t \in TxnIds : ProviderPay(t)
    \/ \E r \in Reqs, u \in Customers, t \in TxnIds : NetsStatusStart(r, u, t)
    \/ \E r \in Reqs : NetsQuery(r)
    \/ \E r \in Reqs : NetsMark(r)
    \/ \E r \in Reqs : FinalizeTxBegin(r)
    \/ \E r \in Reqs, op \in WalletOps, u \in AllUsers, adminId \in AllUsers :
         WalletTxBegin(r, op, u, adminId)
    \/ \E r \in Reqs : TxLock(r)
    \/ \E r \in Reqs : TxCommit(r)

SpecLocks == Init /\ [][LocksNext]_vars

\* ---------------------------------------------------------------- refundTransaction and its connection
\* The local debit phase of refundTransaction statement by statement, on the
\* connection it takes from the pool, and the provider call that follows it.

\* the locals of the request with the connection it holds: locks are the row
\* locks of the open transaction (debitBalanceInTx locks the user's wallet row)
WithConnection(l, locks, got) ==
    [kind |-> l.kind, pc |-> "rt_tx", user |-> l.user, id |-> l.id, amt |-> l.amt,
     obs |-> l.obs, ref |-> l.ref, locks |-> locks, got |-> got]

\* the commit callback that goes on to the provider call with the transaction
\* still open on its connection
CommittedKeepingConnection(l, refundTxnId) ==
    [l EXCEPT !.pc = "rt_provider", !.ref = refundTxnId]

\* the commit callback: connection.release(), then the provider call
CommittedAndReleased(l, refundTxnId) ==
    [l EXCEPT !.pc = "rt_provider", !.ref = refundTxnId, !.locks = <<>>, !.got = 0]

\* db.getConnection and beginTransaction; an error answers and ends
RefundConnBegin(r) ==
    /\ req[r].pc = "rt_debit"
    /\ \E dbFail \in BOOLEAN :
         IF dbFail THEN Finish(r)
         ELSE Goto(r, WithConnection(req[r], <<WalletRow(req[r].user)>>, 0))
    /\ UNCHANGED <<wallets, txns, orders, shipments, refunds, gateway, sessions, timed>>

\* the duplicate check (a plain SELECT) and Wallet.debitBalanceInTx, which waits
\* for the wallet row; an error or a balance below the amount rolls back,
\* releases the connection and answers
RefundConnDebit(r) ==
    /\ req[r].pc = "rt_tx"
    /\ req[r].got = 0
    /\ ~Blocked(r)
    /\ \E dbFail \in BOOLEAN :
         IF dbFail \/ ~DebitBalanceInTx(wallets, req[r].user, req[r].amt).ok
         THEN Finish(r)
         ELSE Goto(r, [req[r] EXCEPT !.got = 1])
    /\ UNCHANGED <<wallets, txns, orders, shipments, refunds, gateway, sessions, timed>>

\* Transaction.create of the processing row on the connection, then commit: the
\* debit and the row become visible together; an error of the INSERT rolls back,
\* an error of the commit releases the connection and answers
RefundConnCommit(r) ==
    /\ req[r].pc = "rt_tx"
    /\ req[r].got = 1
    /\ LogHasRoom
    /\ \E dbFail \in BOOLEAN :
         LET debit == DebitBalanceInTx(wallets, req[r].user, req[r].amt)
         IN IF dbFail
            THEN /\ Finish(r)
                 /\ UNCHANGED <<wallets, txns, gateway>>
            ELSE /\ wallets' = debit.wallets
                 /\ txns' = Append(txns, TxnRow(req[r].user, 0, "refund", req[r].obs,
                                        -req[r].amt, debit.balanceBefore, debit.balanceAfter,
                                        "processing",
                                        Desc("Refund processing", ProcessingKeys(req[r].obs), req[r].id)))
                 /\ gateway' = Append(gateway, "none")
                 /\ Goto(r, CommittedAndReleased(req[r], Len(txns) + 1))
    /\ UNCHANGED <<orders, shipments, refunds, sessions, timed>>

\* finalizeFail's credit runs in a database transaction of its own and waits for
\* the wallet row like every other unit
RefundConnCompensate(r) ==
    /\ WalletRow(req[r].user) \notin UNION {Held(q) : q \in Reqs \ {r}}
    /\ RefundTransactionCompensate(r)

RefundConnNext ==
    \/ \E r \in Reqs, u \in Customers, t \in LedgerIds : RefundTransactionStart(r, u, t)
    \/ \E r \in Reqs : RefundConnBegin(r)
    \/ \E r \in Reqs : RefundConnDebit(r)
    \/ \E r \in Reqs : RefundConnCommit(r)
    \/ \E r \in Reqs : RefundTransactionProvider(r)
    \/ \E r \in Reqs : RefundTransactionSuccess(r)
    \/ \E r \in Reqs : RefundConnCompensate(r)
    \/ \E r \in Reqs : RefundTransactionMarkFailed(r)

SpecRefundConn == InitLedger /\ [][RefundConnNext]_vars

\* ---------------------------------------------------------------- requests that name a transaction id
\* the handlers of the Alipay module that take a transaction id from the request
\* (the status check and handleFaceComplete) and refundTransaction, called by
\* either customer with any id. One customer starts the recharges, so that the
\* other one only ever names rows that are not their own (the handlers treat all
\* customers alike).
Owner == 1

NamedTxnNext ==
    \/ \E a \in Amounts : AlipayStart(Owner, a)
    \/ \E t \in TxnIds : ProviderPay(t)
    \/ \E r \in Reqs, u \in Customers, t \in TxnIds : AlipayStatusStart(r, u, t)
    \/ \E r \in Reqs : AlipayStatusFinalize(r)
    \/ \E u \in Customers, t \in TxnIds : HandleFaceComplete(u, t)
    \/ \E r \in Reqs, u \in Customers, t \in TxnIds : RefundTransactionStart(r, u, t)
    \/ \E r \in Reqs : RefundTransactionDebit(r)
    \/ \E r \in Reqs : RefundTransactionProvider(r)
    \/ \E r \in Reqs : RefundTransactionSuccess(r)
    \/ \E r \in Reqs : RefundTransactionCompensate(r)
    \/ \E r \in Reqs : RefundTransactionMarkFailed(r)

SpecNamedTxn == Init /\ [][NamedTxnNext]_vars

\* ---------------------------------------------------------------- the PayPal access token
\* Times are in seconds. The clock moves in steps of the margin, so that a call
\* can fall exactly on cachedAccessTokenExpiresAtMs - 15 * 1000.
Grace == 15

MaxTicks == 4
MaxTokens == 2
MaxExpiresIn == 3

\* the provider's access_token values; 0 is a response without access_token
Tokens == 1..MaxTokens

\* the provider's expires_in values
ExpiresIn == {k * Grace : k \in 0..MaxExpiresIn}

\* Date.now() moves on by d seconds
Tick(d) ==
    /\ clock < MaxTicks * d
    /\ clock' = clock + d
    /\ UNCHANGED <<wallets, txns, orders, shipments, refunds, gateway, sessions, req,
                   tokenCache, sessionTimes>>

\* the cache test without the margin
CacheFreshNoMargin(now, c) == c.token # 0 /\ now < c.expiresAt

\* cachedAccessToken && now < cachedAccessTokenExpiresAtMs - 15 * 1000
CacheFresh(now, c) == c.token # 0 /\ now < c.expiresAt - Grace

\* a call of getAccessToken: id is the token it returns, obs where it came from,
\* amt the time it was obtained and ref the expiry cached with it
TokenCall(pc, token, from, now, expiresAt) ==
    InFlight("getAccessToken", pc, 0, token, now, from, expiresAt)

\* getAccessToken up to its first await: the cached token, or the token request
GetAccessToken(r) ==
    /\ Free(r)
    /\ IF CacheFresh(clock, tokenCache)
       THEN Goto(r, TokenCall("tok_return", tokenCache.token, "cache", clock,
                              tokenCache.expiresAt))
       ELSE Goto(r, TokenCall("tok_fetch", 0, "none", clock, 0))
    /\ UNCHANGED <<wallets, txns, orders, shipments, refunds, gateway, sessions, timed>>

\* the token request settles: a rejection or a body without access_token throws and
\* leaves the cache; otherwise both cache variables are written before anything
\* else runs
TokenResponse(r) ==
    /\ req[r].pc = "tok_fetch"
    /\ \E token \in {0} \cup Tokens, expiresInSec \in ExpiresIn :
         IF token = 0
         THEN Finish(r) /\ UNCHANGED tokenCache
         ELSE /\ tokenCache' = [token |-> token, expiresAt |-> clock + expiresInSec]
              /\ Goto(r, TokenCall("tok_return", token, "fetched", clock,
                                   clock + expiresInSec))
    /\ UNCHANGED <<wallets, txns, orders, shipments, refunds, gateway, sessions,
                   clock, sessionTimes>>

\* the caller goes on with the token
TokenReturn(r) ==
    /\ req[r].pc = "tok_return"
    /\ Finish(r)
    /\ UNCHANGED <<wallets, txns, orders, shipments, refunds, gateway, sessions, timed>>

TokenNext ==
    \/ Tick(Grace)
    \/ \E r \in Reqs : GetAccessToken(r)
    \/ \E r \in Reqs : TokenResponse(r)
    \/ \E r \in Reqs : TokenReturn(r)

SpecToken == Init /\ [][TokenNext]_vars

\* ---------------------------------------------------------------- the QR session store, timed
\* 30 * 60 * 1000 ms, in seconds
SessionLife == 1800

\* the out_trade_no values looked up
SessionKeys == {1, MaxTxns}

\* what the store remembers of an entry (createdAt), and for the properties: when
\* the entry was last handed out (usedAt), how the last lookup of the entry went
\* (last) and how long the entry had then been unused (idleFor)
SessionTimes(createdAt, usedAt, last, idleFor) ==
    [createdAt |-> createdAt, usedAt |-> usedAt, last |-> last, idleFor |-> idleFor]

\* getSession(outTradeNo): the entry if there is one no older than the limit;
\* an older entry is deleted
GetSession(store, times, now, outTradeNo) ==
    IF outTradeNo \notin store THEN [session |-> FALSE, store |-> store]
    ELSE IF now - times[outTradeNo].createdAt > SessionLife
    THEN [session |-> FALSE, store |-> store \ {outTradeNo}]
    ELSE [session |-> TRUE, store |-> store]

\* requestQrCode once the provider has answered: the new entry is stored with
\* createdAt: Date.now(); handleStart calls it for a new out_trade_no and
\* handlePayPage after getSession found nothing
RequestQrCode(outTradeNo) ==
    /\ outTradeNo \notin sessions
    /\ sessions' = sessions \cup {outTradeNo}
    /\ sessionTimes' = [sessionTimes EXCEPT ![outTradeNo] = SessionTimes(clock, clock, "none", 0)]
    /\ UNCHANGED <<wallets, txns, orders, shipments, refunds, gateway, req, clock, tokenCache>>

\* a handler looks the entry up (handlePayPage, handleStatus); nothing is
\* written to an entry that is handed out
LookupSession(outTradeNo) ==
    /\ outTradeNo \in sessions
    /\ LET got == GetSession(sessions, sessionTimes, clock, outTradeNo)
           was == sessionTimes[outTradeNo]
       IN /\ sessions' = got.store
          /\ sessionTimes' = [sessionTimes EXCEPT ![outTradeNo] =
                 SessionTimes(was.createdAt,
                              IF got.session THEN clock ELSE was.usedAt,
                              IF got.session THEN "returned" ELSE "null",
                              clock - was.usedAt)]
    /\ UNCHANGED <<wallets, txns, orders, shipments, refunds, gateway, req, clock, tokenCache>>

SessionStoreNext ==
    \/ Tick(SessionLife \div 3)
    \/ \E t \in SessionKeys : RequestQrCode(t)
    \/ \E t \in SessionKeys : LookupSession(t)

SpecSessionStore == Init /\ [][SessionStoreNext]_vars

\* ---------------------------------------------------------------- properties of the order life cycle
\* the step is the settlement step (Wallet.confirmDelivery) of the request of slot r
Settles(r) == req[r].pc = "cd_settle" /\ req'[r].pc = "idle"

\* C1: after any interleaving of ledger operations every wallet has
\* balance >= 0 and frozen_balance >= 0.
C1_WalletsNonNegative ==
    \A u \in AllUsers :
        wallets[u].exists => wallets[u].balance >= 0 /\ wallets[u].frozen_balance >= 0

\* C6: a checkout that ends with its freeze refused for insufficient balance
\* leaves no order row behind, so that every order row has its purchase
\* transaction.
C6_NoOrderWithoutFreeze ==
    [][\A r \in Reqs :
         (/\ req[r].pc = "co_freeze"
          /\ req'[r].pc = "idle"
          /\ wallets[req[r].user].balance < req[r].amt)
         => req[r].id > Len(orders')]_vars

\* C7: Wallet.confirmDelivery is atomic across both wallets: a settlement step
\* either takes amount from the payer's frozen_balance and adds it to the
\* admin's balance, or changes no wallet; also when the admin has no wallet row.
C7_SettleAtomic ==
    [][\A r \in Reqs :
         Settles(r) =>
            \/ wallets' = wallets
            \/ /\ wallets'[req[r].user].frozen_balance
                    = wallets[req[r].user].frozen_balance - req[r].amt
               /\ wallets'[AdminId].exists
               /\ wallets'[AdminId].balance = wallets[AdminId].balance + req[r].amt]_vars

\* C8: a successful settlement appends two transaction rows for the order: one
\* of the payer for the release of the frozen funds and one income row of the
\* beneficiary.
C8_SettleTwoRows ==
    [][\A r \in Reqs :
         (Settles(r) /\ wallets' # wallets) =>
            /\ Len(txns') = Len(txns) + 2
            /\ \E i, j \in (Len(txns) + 1)..Len(txns') :
                  /\ txns'[i].user_id = req[r].user
                  /\ txns'[i].order_id = req[r].id
                  /\ txns'[j].user_id = AdminId
                  /\ txns'[j].order_id = req[r].id
                  /\ txns'[j].type = "income"]_vars

\* C9: a confirm-delivery request reaches the settlement only if, when it was
\* checked, the order belonged to the requesting user, was not yet confirmed
\* and its shipment was 'delivered'; only the settlement step of such a request
\* changes a wallet or the transaction log on behalf of a confirm-delivery
\* request (a refused request ends in its check step, which changes nothing),
\* and it takes the order total from the frozen_balance of the owner.
C9_ConfirmOnlyOwnDelivered ==
    [][\A r \in Reqs :
         /\ (req[r].pc = "idle" /\ req'[r].pc = "cd_settle") =>
               /\ OrderExists(req'[r].id)
               /\ orders[req'[r].id].user_id = req'[r].user
               /\ ~orders[req'[r].id].is_confirmed
               /\ shipments[req'[r].id] = "delivered"
               /\ wallets' = wallets /\ txns' = txns
         /\ (Settles(r) /\ wallets' # wallets) =>
               /\ orders[req[r].id].user_id = req[r].user
               /\ req[r].obs = "delivered"
               /\ req[r].amt = orders[req[r].id].total
               /\ \A u \in Customers \ {req[r].user} : wallets'[u] = wallets[u]]_vars

\* a settlement has moved the total of a delivered order out of its owner's frozen_balance
C9_Witness ==
    \E t \in 1..Len(txns) :
        /\ txns[t].type = "income"
        /\ shipments[txns[t].order_id] = "delivered"
        /\ \E r \in Reqs : req[r].pc = "idle"

RECURSIVE CompletedRecharges(_, _, _)
CompletedRecharges(t, userId, n) ==
    IF n = 0 THEN 0
    ELSE CompletedRecharges(t, userId, n - 1)
         + (IF /\ t[n].user_id = userId
               /\ t[n].type = "recharge"
               /\ t[n].status = "completed"
            THEN t[n].amount ELSE 0)

StatusKinds == {"alipayStatus", "paypalStatus", "netsStatus"}

\* C2: whatever the interleaving of status checks and SSE polls on a recharge,
\* its amount is credited at most once, and the credit and the transition to
\* completed are committed together or not at all: the balance of every
\* customer is exactly the sum of the amounts of their completed recharges
C2_CreditedOnceWithCompletion ==
    \A u \in Customers :
        wallets[u].exists => wallets[u].balance = CompletedRecharges(txns, u, Len(txns))

\* a finalization is about to run on a row that another request has completed
C2_Witness ==
    \E r \in Reqs :
        /\ req[r].pc \in {"ali_finalize", "pp_capture", "pp_finalize", "nets_finalize",
                          "sse_mark", "sse_finalize"}
        /\ req[r].obs # "completed"
        /\ txns[req[r].id].status = "completed"
        /\ txns[req[r].id].payment_method \in {"alipay", "paypal", "nets"}
        /\ wallets[req[r].user].balance = txns[req[r].id].amount

IssuedRefund(u, t) ==
    \E i \in 1..Len(txns) :
        /\ txns[i].user_id = u
        /\ txns[i].type = "refund"
        /\ txns[i].description.marker = t
        /\ txns[i].status \in {"processing", "completed"}

\* C4: a refundTransaction call made for a recharge that already has a
\* processing or completed refund row is rejected before the debit, so it debits
\* nothing and inserts nothing
C4_SecondRefundRejected ==
    [][\A r \in Reqs :
          (/\ req[r].pc = "idle"
           /\ req'[r].kind = "refundTransaction"
           /\ IssuedRefund(req'[r].user, req'[r].id))
          => FALSE]_vars

\* C5: when the provider call fails after the debit, the compensation credits
\* the refunded amount back, and the handler ends with the refund row failed
C5_FailedRefundRestores ==
    [][\A r \in Reqs :
          /\ (req[r].pc = "rt_compensate" /\ req'[r].pc = "rt_mark_failed")
             => wallets'[req[r].user].balance = wallets[req[r].user].balance + req[r].amt
          /\ (req[r].pc = "rt_mark_failed" /\ req'[r].pc = "idle")
             => txns'[req[r].ref].status = "failed"]_vars

\* ---------------------------------------------------------------- properties of Wallet.freezeBalance
\* the step is the freeze step (Wallet.freezeBalance) of the checkout of slot r
Freezes(r) == req[r].pc = "co_freeze" /\ req'[r].pc = "idle"

\* C11: Wallet.freezeBalance called with balance < amount answers
\* 'Insufficient balance' and leaves the wallet rows and the transaction log
\* as they were
C11_FreezeRefusedChangesNothing ==
    [][\A r \in Reqs :
          (/\ Freezes(r)
           /\ wallets[req[r].user].exists
           /\ wallets[req[r].user].balance < req[r].amt)
          => /\ wallets' = wallets
             /\ txns' = txns
             /\ \A dbFail \in BOOLEAN :
                  ~FreezeBalance(wallets, txns, req[r].user, req[r].id, req[r].amt, dbFail).ok
             /\ FreezeBalance(wallets, txns, req[r].user, req[r].id, req[r].amt, FALSE).err
                  = "Insufficient balance"]_vars

\* a checkout has ended with its freeze refused: its order has no purchase row
\* and the balance of its owner does not cover the total
C11_Witness ==
    \E o \in 1..Len(orders) :
        /\ \A t \in 1..Len(txns) : txns[t].order_id # o
        /\ \A r \in Reqs : ~(req[r].kind = "checkout" /\ req[r].id = o)
        /\ wallets[orders[o].user_id].exists
        /\ wallets[orders[o].user_id].balance < orders[o].total
        /\ wallets[orders[o].user_id].frozen_balance > 0

\* C12: a successful Wallet.freezeBalance takes amount from balance, adds it to
\* frozen_balance (the sum stays), touches no other wallet, and appends exactly
\* one purchase row with amount = -amount, the order id, balance_before = old
\* balance and balance_after = old balance - amount
C12_FreezeMovesFunds ==
    [][\A r \in Reqs :
          (Freezes(r) /\ (wallets' # wallets \/ txns' # txns))
          => LET u == req[r].user
                 a == req[r].amt
             IN /\ wallets[u].balance >= a
                /\ wallets'[u].balance = wallets[u].balance - a
                /\ wallets'[u].frozen_balance = wallets[u].frozen_balance + a
                /\ wallets'[u].balance + wallets'[u].frozen_balance
                     = wallets[u].balance + wallets[u].frozen_balance
                /\ \A v \in AllUsers \ {u} : wallets'[v] = wallets[v]
                /\ Len(txns') = Len(txns) + 1
                /\ \A t \in 1..Len(txns) : txns'[t] = txns[t]
                /\ LET row == txns'[Len(txns')]
                   IN /\ row.user_id = u
                      /\ row.type = "purchase"
                      /\ row.order_id = req[r].id
                      /\ row.amount = -a
                      /\ row.balance_before = wallets[u].balance
                      /\ row.balance_after = wallets[u].balance - a]_vars

\* a freeze has committed: the purchase row of an order and its total in the
\* frozen_balance of the payer
C12_Witness ==
    \E t \in 1..Len(txns) :
        /\ txns[t].type = "purchase"
        /\ txns[t].balance_after = txns[t].balance_before + txns[t].amount
        /\ wallets[txns[t].user_id].frozen_balance >= -txns[t].amount
        /\ wallets[txns[t].user_id].balance = txns[t].balance_after

Sum(w, u) == w[u].balance + w[u].frozen_balance

\* C14: every step that changes the balance + frozen_balance of a wallet
\* appends or completes, in the same step, a transaction row of that wallet's user.
C14_SumChangesWithRow ==
    [][\A u \in AllUsers :
          Sum(wallets', u) # Sum(wallets, u)
          => \E t \in 1..Len(txns') :
                /\ txns'[t].user_id = u
                /\ \/ t > Len(txns)
                   \/ txns[t].status # "completed" /\ txns'[t].status = "completed"]_vars

\* the status moves a recharge row may make
RechargeMoves ==
    {<<"pending", "authorized">>, <<"authorized", "completed">>,
     <<"pending", "completed">>, <<"pending", "failed">>}

\* C15: the status of a recharge row changes only along pending -> authorized,
\* authorized -> completed, pending -> completed or pending -> failed; it never
\* leaves completed or failed, and an Alipay recharge is never authorized.
C15_RechargeStatusMoves ==
    [][/\ \A t \in 1..Len(txns) :
            txns[t].type = "recharge"
            => /\ t <= Len(txns')
               /\ txns'[t].type = "recharge"
               /\ \/ txns'[t].status = txns[t].status
                  \/ <<txns[t].status, txns'[t].status>> \in RechargeMoves
       /\ \A t \in 1..Len(txns') :
            (txns'[t].type = "recharge" /\ txns'[t].payment_method = "alipay")
            => txns'[t].status # "authorized"]_vars

\* a NETS recharge that went pending -> authorized -> completed
C15_Witness ==
    \E t \in 1..Len(txns) :
        /\ txns[t].type = "recharge"
        /\ txns[t].payment_method = "nets"
        /\ txns[t].status = "completed"
        /\ txns[t].description.tag = "NETS recharge (completed)"
        /\ "txn_retrieval_ref" \in txns[t].description.keys

\* C16: a NETS recharge is credited only in the step that moves it from
\* authorized to completed, and it becomes authorized only when the provider
\* reports the charge as paid; a pending NETS recharge is never completed directly.
C16_NetsCreditedFromAuthorized ==
    [][\A t \in 1..Len(txns) :
          (txns[t].type = "recharge" /\ txns[t].payment_method = "nets")
          => /\ (txns'[t].status = "completed" /\ txns[t].status # "completed")
                => /\ txns[t].status = "authorized"
                   /\ wallets'[txns[t].user_id].balance
                        = wallets[txns[t].user_id].balance + txns[t].amount
             /\ (txns'[t].status = "authorized" /\ txns[t].status # "authorized")
                => ProviderState(t) = "paid"]_vars

\* a status request leaves its provider step with an answer
Answers(r, pc) == req[r].pc = pc /\ req'[r].pc = "idle"

\* C17: when the provider query or capture of a status check fails, the answer is
\* 'pending', neither the transaction nor any wallet changes, and no recharge
\* row is ever moved to failed. (Alipay queries the provider only after it
\* locked a row that is not completed.)
C17_ProviderErrorIsPending ==
    [][/\ \A r \in Reqs :
            /\ (req[r].pc = "ali_finalize" /\ txns[req[r].id].status # "completed")
               => LET res == AlipayTryFinalize(wallets, txns, req[r].id, req[r].user,
                                               "error", FALSE)
                  IN /\ AlipayStatusAnswer(res) = "pending"
                     /\ res.wallets = wallets
                     /\ res.txns = txns
            /\ req[r].pc = "pp_get"
               => PayPalQueryNext(FALSE, ProviderState(req[r].id)) = "pending"
            /\ req[r].pc = "nets_query"
               => NetsQueryNext(FALSE, ProviderState(req[r].ref)) = "pending"
            /\ (Answers(r, "pp_get") \/ Answers(r, "pp_capture") \/ Answers(r, "nets_query"))
               => wallets' = wallets /\ txns' = txns
       /\ \A t \in 1..Len(txns') :
            txns'[t].type = "recharge" => txns'[t].status # "failed"]_vars

\* a status check is at its provider call for a recharge that the customer has
\* paid at the provider and that is still pending locally
C17_Witness ==
    \E r \in Reqs :
        /\ req[r].pc \in {"ali_finalize", "pp_capture", "nets_query"}
        /\ TxnExists(req[r].id)
        /\ txns[req[r].id].status = "pending"
        /\ ProviderState(req[r].id) \in {"paid", "approved"}

\* C18: Wallet.refund moves funds from frozen_balance to balance: the balance
\* grows by exactly the amount by which frozen_balance falls, and frozen_balance
\* stays at or above 0, whatever frozen_balance was (also below the amount).
C18_RefundMovesFrozenToBalance ==
    [][\A r \in Reqs :
          (req[r].pc = "pr_wallet" /\ req'[r].pc = "idle")
          => LET u == refunds[req[r].id].user_id
             IN /\ wallets'[u].balance - wallets[u].balance
                     = wallets[u].frozen_balance - wallets'[u].frozen_balance
                /\ wallets'[u].frozen_balance >= 0]_vars

\* C19: once a transaction row is completed, no step changes any of its fields.
C19_CompletedRowsFrozen ==
    [][\A t \in 1..Len(txns) :
          txns[t].status = "completed" => (t <= Len(txns') /\ txns'[t] = txns[t])]_vars

\* a unit of work that did not commit left wallets and transactions as they were
AllOrNothing(res) == res.ok \/ (res.wallets = wallets /\ res.txns = txns)

Refundable(u, t) ==
    /\ TxnExists(t)
    /\ txns[t].user_id = u
    /\ txns[t].type = "recharge"
    /\ txns[t].status = "completed"
    /\ txns[t].amount > 0
    /\ txns[t].payment_method \in {"alipay", "paypal", "nets"}
    /\ HasProviderIds(txns[t])

\* the debit step of refundTransaction request r
Debits(r) == req[r].pc = "rt_debit" /\ req'[r].pc = "rt_provider"

\* C21: refundTransaction debits the wallet and creates a refund row only for a
\* completed recharge of the requesting user with a positive amount, a gateway
\* payment method and its provider identifier; in every other case wallets and
\* transactions are unchanged.
C21_RefundOnlyRefundable ==
    [][/\ \A r \in Reqs :
            /\ Debits(r) => Refundable(req[r].user, req[r].id)
            /\ (req[r].pc = "idle" /\ req'[r].kind = "refundTransaction")
               => Refundable(req'[r].user, req'[r].id)
            /\ (req[r].kind = "refundTransaction" /\ req[r].pc = "rt_debit" /\ ~Debits(r)
                /\ req'[r].pc = "idle")
               => wallets' = wallets /\ txns' = txns
       /\ \A u \in Customers, t \in TxnIds :
            (~Refundable(u, t) /\ TxnExists(t)) => RefundTransactionCheck(u, t) # "ok"
       /\ (Len(txns') > Len(txns) /\ txns'[Len(txns')].type = "refund")
          => \E r \in Reqs : Debits(r) /\ txns'[Len(txns')].user_id = req[r].user]_vars

\* a refund row stands for a refundable recharge of the same user
C21_Witness ==
    \E i \in 1..Len(txns) :
        /\ txns[i].type = "refund"
        /\ txns[i].status \in {"processing", "completed"}
        /\ Refundable(txns[i].user_id, txns[i].description.marker)
        /\ \E t \in 1..Len(txns), u \in Customers :
             /\ ~Refundable(u, t)
             /\ RefundTransactionCheck(u, t) \in {"denied", "not_refundable", "unsupported"}

\* the refund rows of recharge t that are not failed
LiveRefundsOf(t) ==
    {i \in 1..Len(txns) : /\ txns[i].type = "refund"
                          /\ txns[i].description.marker = t
                          /\ txns[i].status # "failed"}

\* C22: whatever the interleaving of two refundTransaction requests for one
\* recharge T, at most one refund row of T that is not failed exists (the wallet
\* is debited for T at most once).
C22_OneLiveRefundPerRecharge ==
    \A t \in TxnIds : Cardinality(LiveRefundsOf(t)) <= 1

\* the income rows that settlements of order o wrote
SettlementsOf(o) == {i \in 1..Len(txns) : txns[i].type = "income" /\ txns[i].order_id = o}

\* C23: the settlement transfer of an order is applied at most once; a repeated
\* or concurrent confirm-delivery request for a settled order moves no funds.
C23_SettledAtMostOnce ==
    \A o \in OrderIds : Cardinality(SettlementsOf(o)) <= 1

\* the rows Wallet.refund wrote for order o
WalletRefundsOf(o) ==
    {i \in 1..Len(txns) : /\ txns[i].type = "refund"
                          /\ txns[i].order_id = o
                          /\ txns[i].payment_method = "null"}

\* C24: the frozen funds of an order are either settled to the admin or released
\* to the payer by an approved refund, never both.
C24_SettledOrRefunded ==
    \A o \in OrderIds : SettlementsOf(o) = {} \/ WalletRefundsOf(o) = {}

\* C25: a refund request is paid out at most once: whatever the interleaving of
\* concurrent approve requests for it, Wallet.refund credits the user at most once.
C25_RefundPaidOnce ==
    \A f \in 1..Len(refunds) : Cardinality(WalletRefundsOf(refunds[f].order_id)) <= 1

\* the provider of the handler that wrote the description of a completed recharge
ProviderOfTag(tag) ==
    CASE tag \in {"Alipay sandbox recharge", "Alipay facepay sandbox recharge"} -> "alipay"
      [] tag = "PayPal sandbox recharge" -> "paypal"
      [] tag = "NETS recharge (completed)" -> "nets"
      [] OTHER -> "null"

\* C26: an operation that completes a transaction and credits its amount does so
\* only for a recharge whose payment method is the provider of that operation;
\* a refund row is never completed and applied to the wallet by such an operation.
C26_OnlyOwnRechargesFinalized ==
    [][\A t \in 1..Len(txns) :
          (/\ txns[t].status # "completed"
           /\ txns'[t].status = "completed"
           /\ wallets' # wallets)
          => /\ txns[t].type = "recharge"
             /\ txns[t].payment_method = ProviderOfTag(txns'[t].description.tag)]_vars

\* the sum of the (negative) amounts of the refund rows of a user that are not failed
RECURSIVE LiveRefunds(_, _, _)
LiveRefunds(t, userId, n) ==
    IF n = 0 THEN 0
    ELSE LiveRefunds(t, userId, n - 1)
         + (IF /\ t[n].user_id = userId
               /\ t[n].type = "refund"
               /\ t[n].status # "failed"
            THEN t[n].amount ELSE 0)

\* C27: a refund row of refundTransaction is failed only after the compensating
\* credit has committed: in no state is a refund row failed while the wallet is
\* still debited for it, so every balance is at least the completed recharges
\* less the refunds that are not failed.
C27_FailedOnlyAfterCredit ==
    \A u \in Customers :
        wallets[u].balance >= CompletedRecharges(txns, u, Len(txns))
                              + LiveRefunds(txns, u, Len(txns))

\* C28: a refund request is approved only if its amount has been returned to the
\* user; when Wallet.refund fails after Refund.approve the request does not stay
\* approved with no money returned (a request whose Wallet.refund is still to
\* run is in progress).
C28_ApprovedMeansPaid ==
    \A f \in 1..Len(refunds) :
        refunds[f].status = "approved"
        => \/ WalletRefundsOf(refunds[f].order_id) # {}
           \/ \E r \in Reqs : req[r].pc = "pr_wallet" /\ req[r].id = f

\* C29: refundTransaction rejects a refund of recharge T as already issued only
\* when a refund row that is not failed references exactly T; a refund of a
\* transaction whose decimal id begins with the id of T does not block it.
C29_RejectsOnlyExactMarker ==
    \A u \in Customers, t \in 1..Len(txns) :
        RefundTransactionCheck(u, t) = "already_refunded"
        => \E i \in LiveRefundsOf(t) : txns[i].user_id = u

\* C30: when the provider has recorded the payment of a NETS recharge and the
\* client keeps calling the status check, the recharge eventually becomes
\* completed (and credited), also when its QR session expired or was lost
\* before the first poll that would have seen the payment.
C30_PaidNetsEventuallyCompleted ==
    \A t \in TxnIds :
        (/\ TxnExists(t)
         /\ txns[t].type = "recharge"
         /\ txns[t].payment_method = "nets"
         /\ ProviderState(t) = "paid")
        ~> (TxnExists(t) /\ txns[t].status = "completed")

\* the callback of tryFinalizeTransaction in the SSE stream writes { success: true }
SseSuccess(r) == req[r].pc = "sse_finalize" /\ req'[r].pc = "idle"

\* C31: the SSE payment-status stream writes the { success: true } event only
\* when the transaction it names is completed (and so credited) at that moment;
\* when markAuthorizedFromGateway or tryFinalizeTransaction fails or leaves the
\* transaction not completed, no success event is written.
C31_SuccessOnlyWhenCompleted ==
    [][\A r \in Reqs :
          SseSuccess(r)
          => /\ OwnTxn(txns', req[r].id, req[r].user)
             /\ txns'[req[r].id].status = "completed"]_vars

\* the positions of an approve request of processRefund that has not been answered
ApprovePending(r) ==
    req[r].pc \in {"pr_approve", "pr_record", "pr_wallet", "pr_no_response"}

OthersUntouched(a) ==
    \A b \in AllUsers \ {a} :
        /\ wallets'[b] = wallets[b]
        /\ \A i \in 1..Len(txns) :
             txns[i].user_id = b => i <= Len(txns') /\ txns'[i] = txns[i]

\* the steps of the requests that take a transaction id from the caller
NamedTxnKinds == {"alipayStatus", "paypalStatus", "netsStatus", "refundTransaction"}

\* a request that names a transaction row of another user is refused by every
\* one of the handlers before its first write
NamedTxnRefused ==
    \A u \in Customers, t \in 1..Len(txns) :
        txns[t].user_id # u
        => /\ AlipayStatusCheck(u, t) = "not_found"
           /\ PayPalStatusCheck(u, t) = "not_found"
           /\ NetsStatusCheck(u, t) = "not_found"
           /\ RefundTransactionCheck(u, t) = "denied"
           /\ \A dbFail \in BOOLEAN :
                /\ FaceComplete(wallets, txns, t, u, dbFail).wallets = wallets
                /\ FaceComplete(wallets, txns, t, u, dbFail).txns = txns

\* C33: a status check, a face-complete or a transaction-refund request of the
\* session of user A never changes the wallet row or a transaction row of another
\* user B, whatever transaction id it names: a request that names a row of
\* another user is refused, and every step of such a request (a face-complete
\* is the one step that changes a row and no request slot) leaves the rows of
\* the other users as they are.
C33_OtherUsersRowsUntouched ==
    /\ []NamedTxnRefused
    /\ [][/\ \A r \in Reqs :
               (req[r].kind \in NamedTxnKinds /\ req'[r] # req[r])
               => OthersUntouched(req[r].user)
          /\ \A u \in Customers, t \in TxnIds :
               (req' = req /\ txns' # txns /\ Len(txns') = Len(txns) /\ HandleFaceComplete(u, t))
               => OthersUntouched(u)]_vars

\* a recharge of one customer that its owner could refund (completed, with the
\* provider's identifiers, the wallet credited) while its owner's own refund
\* request is at its debit, and that the other customer is refused
C33_Witness ==
    \E t \in 1..Len(txns), u \in Customers, r \in Reqs :
        /\ txns[t].user_id # u
        /\ Refundable(txns[t].user_id, t)
        /\ wallets[txns[t].user_id].balance >= txns[t].amount
        /\ RefundTransactionCheck(u, t) = "denied"
        /\ req[r].pc = "rt_debit"
        /\ req[r].id = t

\* an SSE stream of handleSsePaymentStatus whose handler is still in memory
Streams == {r \in Reqs : req[r].kind = "sseStream"}

\* C34: when the poll limit of the SSE stream is reached, the provider has been
\* sent at least one query with frontend_timeout_status = 1 before the stream
\* reports Timeout and ends.
C34_TimeoutAfterTimeoutQuery ==
    \A r \in Streams : req[r].last = "timeout" => req[r].ftsQueries >= 1

\* C35: the polling loop of an SSE stream is bounded: one connection sends the
\* provider at most maxPolls queries, also when a response takes longer than
\* the interval.
C35_AtMostMaxPollsQueries ==
    \A r \in Streams : req[r].queries <= MaxPolls

\* C36: Wallet.confirmDelivery takes the row locks of the payer's and of the
\* beneficiary's wallet inside one database transaction in ascending order of
\* the user ids, and no set of concurrent units of work (freeze, settle, refund,
\* recharge, gateway finalization) is deadlocked on wallet or transaction row
\* locks: no two open units each wait for a lock the other one holds.
C36_AscendingLocksNoDeadlock ==
    /\ \A r \in Reqs :
         (req[r].kind = "Wallet.confirmDelivery" /\ req[r].got >= 1)
         => req[r].locks[1][2] <= req[r].locks[2][2]
    /\ \A r \in Reqs : \A q \in Reqs \ {r} :
         ~(/\ Blocked(r) /\ req[r].locks[req[r].got + 1] \in Held(q)
           /\ Blocked(q) /\ req[q].locks[req[q].got + 1] \in Held(r))

\* C37: in refundTransaction the provider refund call is issued only after the
\* local debit transaction has committed and its connection has been released:
\* while the provider call is in flight the request holds no row lock (no other
\* unit waits for it), and the debit and the processing row are in the tables.
C37_ProviderCallAfterCommit ==
    \A r \in Reqs :
        req[r].pc = "rt_provider"
        => /\ Held(r) = {}
           /\ \A q \in Reqs \ {r} : ~Blocked(q) \/ req[q].locks[req[q].got + 1] \notin Held(r)
           /\ TxnExists(req[r].ref)
           /\ txns[req[r].ref].type = "refund"
           /\ txns[req[r].ref].user_id = req[r].user
           /\ txns[req[r].ref].description.marker = req[r].id

\* a provider refund call is in flight while another refund of the same user
\* holds the lock of the wallet row
C37_Witness ==
    \E r \in Reqs : \E q \in Reqs \ {r} :
        /\ req[r].pc = "rt_provider"
        /\ req[q].pc = "rt_tx"
        /\ req[q].user = req[r].user
        /\ Held(q) = {WalletRow(req[q].user)}

\* ---------------------------------------------------------------- properties of the access token
\* C38: getAccessToken answers from the cache, without a token request, only
\* when a token is cached and the time is more than 15 seconds before the cached
\* expiry; otherwise it requests a token, and the token it gets is written to
\* the cache together with its expiry; so a token served from the cache was,
\* when served, more than 15 seconds before the expiry cached with it, whatever
\* other callers do in between
C38_CachedTokenServedOnlyWhenFresh ==
    /\ [](\A r \in Reqs :
            req[r].pc = "tok_return" /\ req[r].obs = "cache" =>
                req[r].id # 0 /\ req[r].amt + Grace < req[r].ref)
    /\ [][\A r \in Reqs :
            /\ req[r].pc = "idle" /\ req'[r].pc = "tok_return" =>
                 /\ tokenCache.token # 0
                 /\ clock + Grace < tokenCache.expiresAt
                 /\ req'[r].id = tokenCache.token
                 /\ req'[r].ref = tokenCache.expiresAt
                 /\ tokenCache' = tokenCache
            /\ req[r].pc = "idle" /\ req'[r].pc = "tok_fetch" =>
                 tokenCache.token = 0 \/ clock + Grace >= tokenCache.expiresAt
            /\ req[r].pc = "tok_fetch" /\ req'[r].pc = "tok_return" =>
                 /\ req'[r].id # 0
                 /\ tokenCache' = [token |-> req'[r].id, expiresAt |-> req'[r].ref]
         ]_vars

\* a caller holds a token served from the cache while another caller's token
\* request has since overwritten the cache with a different token
C38_Witness ==
    \E r \in Reqs : \E q \in Reqs \ {r} :
        /\ req[r].pc = "tok_return" /\ req[r].obs = "cache"
        /\ req[q].pc = "tok_return" /\ req[q].obs = "fetched"
        /\ tokenCache.token = req[q].id
        /\ tokenCache.token # req[r].id
        /\ clock > 0

\* ---------------------------------------------------------------- properties of the QR session store
\* C39: a QR session expires after 30 minutes without use: a lookup made fewer
\* than 30 minutes after the session was last used returns it, a lookup made
\* more than 30 minutes after returns nothing, and a lookup that returns
\* nothing for an entry of the store removes the entry
C39_ExpiresAfterInactivity ==
    \A t \in SessionKeys :
        /\ sessionTimes[t].last # "none" /\ sessionTimes[t].idleFor < SessionLife =>
               sessionTimes[t].last = "returned"
        /\ sessionTimes[t].last = "returned" => sessionTimes[t].idleFor <= SessionLife
        /\ sessionTimes[t].last = "null" => t \notin sessions

====
